---- MODULE Spec2Model ----
(***************************************************************************)
(* roguewave: the remote Command runner (src/src/command.rs), the          *)
(* LocalCommand runner (src/src/local.rs) and their output pumps.          *)
(*                                                                         *)
(* One run of one command is modelled: the builder value, the child        *)
(* process with its two pipes, the two pumps (tokio tasks for the remote   *)
(* runner, OS threads for the local one) and the caller's position inside  *)
(* run, cut at its suspension points (spawn, wait, the two joins).         *)
(* Strings and streams are sequences of byte values.                       *)
(***************************************************************************)
EXTENDS Integers, Sequences, FiniteSets, TLC

VARIABLES kind, op, cmd, content, child, pipe, pump, joined, mainpc, waitRes, result, log,
          session, host, call

\* one run of one command
runVars == <<kind, op, cmd, content, child, pipe, pump, joined, mainpc, waitRes, result, log>>

\* the Session a recipe works on, the remote host as the recipes see it, and
\* the recipe call made last with what it did and returned
recipeVars == <<session, host, call>>

vars == <<runVars, recipeVars>>

(***************************************************************************)
(* Bounds of the model.                                                    *)
(***************************************************************************)
\* longest stdout / stderr of the child in the run specification
MaxOut == 1
MaxErr == 1
\* longest stdout of the child in the pump specification
MaxPumpLen == 3
\* bytes a pipe holds before the child's write blocks
PipeCap == 2
\* most pieces (a letter, a newline, a carriage return, the text "[eof]") a
\* stream is made of in the log specification
MaxSegs == 3
\* most arguments a command is built up to in the builder specification
MaxArgs == 5
\* longest remote_user given to upload
MaxUserLen == 2

Streams == {"stdout", "stderr"}
None == "None"

\* byte values: 'a', '\n', '\r', the two bytes of U+00E9, and 0xFF
LF == 10
CR == 13
RunBytes == {97, 10, 255}
PumpBytes == {97, 10, 13, 195, 169}

RECURSIVE SeqsUpTo(_, _)
SeqsUpTo(S, n) ==
  IF n = 0 THEN {<<>>}
  ELSE LET shorter == SeqsUpTo(S, n - 1)
       IN shorter \cup {Append(s, b) : s \in {t \in shorter : Len(t) = n - 1}, b \in S}

\* the exit codes a child is given; status.code() is Some(c), written <<c>>, or
\* None, written <<>>, for a child killed by a signal
ExitCodes == {0, 1, 2}
Some(c) == <<c>>
NoCode == <<>>
Statuses == {Some(c) : c \in ExitCodes} \cup {NoCode}

(***************************************************************************)
(* std::str::from_utf8 / String::from_utf8: well-formed UTF-8.             *)
(***************************************************************************)
IsCont(b, i) == i <= Len(b) /\ b[i] \in 128..191

RECURSIVE Utf8From(_, _)
Utf8From(b, i) ==
  IF i > Len(b) THEN TRUE
  ELSE LET c == b[i] IN
    IF c < 128 THEN Utf8From(b, i + 1)
    ELSE IF c \in 194..223 THEN IsCont(b, i + 1) /\ Utf8From(b, i + 2)
    ELSE IF c \in 224..239 THEN
           /\ IsCont(b, i + 1) /\ IsCont(b, i + 2)
           /\ (c = 224 => b[i + 1] >= 160)
           /\ (c = 237 => b[i + 1] <= 159)
           /\ Utf8From(b, i + 3)
    ELSE IF c \in 240..244 THEN
           /\ IsCont(b, i + 1) /\ IsCont(b, i + 2) /\ IsCont(b, i + 3)
           /\ (c = 240 => b[i + 1] >= 144)
           /\ (c = 244 => b[i + 1] <= 143)
           /\ Utf8From(b, i + 4)
    ELSE FALSE

\* String::from_utf8_unchecked: no validation
from_utf8_unchecked(b) == TRUE

from_utf8_ok(b) == Utf8From(b, 1)

\* vec.iter().position(|i| *i == b'\n'), 1-based; 0 when there is none
RECURSIVE PositionFrom(_, _)
PositionFrom(vec, i) ==
  IF i > Len(vec) THEN 0
  ELSE IF vec[i] = LF THEN i
  ELSE PositionFrom(vec, i + 1)

position(vec) == PositionFrom(vec, 1)

(***************************************************************************)
(* Log records.  One sink per source is kept: the command's own events and *)
(* each stream's events, every one in emission order.                      *)
(***************************************************************************)
\* "stdout: " and "stderr: "
Prefix(s) ==
  IF s = "stdout" THEN <<115, 116, 100, 111, 117, 116, 58, 32>>
  ELSE <<115, 116, 100, 101, 114, 114, 58, 32>>

\* "[eof]"
EofMarker == <<91, 101, 111, 102, 93>>

LogRecord(level, msg) == [level |-> level, msg |-> msg]

\* Debug for Arg that takes no notice of the placeholder
DebugArg_placeholder_ignored(a) ==
  IF a.kind = "Escaped" THEN <<"quoted", a.value>> ELSE <<"Raw", a.value>>

\* impl fmt::Debug for Arg
DebugArg(a) ==
  IF a.display_placeholder # None THEN <<"display", a.display_placeholder>>
  ELSE IF a.kind = "Escaped" THEN <<"quoted", a.value>>
  ELSE <<"Raw", a.value>>

DebugArgv(argv) == [i \in 1..Len(argv) |-> DebugArg(argv[i])]

\* the Debug rendering of a LocalCommand's Vec<String>
DebugStrings(argv) == [i \in 1..Len(argv) |-> <<"quoted", argv[i]>>]

(***************************************************************************)
(* Builder values.                                                         *)
(***************************************************************************)
Escaped(v) == [kind |-> "Escaped", value |-> v, display_placeholder |-> None]
Raw(v) == [kind |-> "Raw", value |-> v, display_placeholder |-> None]

\* Session::command
command(argv) ==
  [command |-> [i \in 1..Len(argv) |-> Escaped(argv[i])],
   command_log_level |-> "Info",
   stdout_log_level |-> "Info",
   stderr_log_level |-> "Error",
   allow_failure |-> FALSE]

\* Session::raw_command
raw_command(argv) ==
  [command |-> [i \in 1..Len(argv) |-> Raw(argv[i])],
   command_log_level |-> "Info",
   stdout_log_level |-> "Info",
   stderr_log_level |-> "Error",
   allow_failure |-> FALSE]

\* Command::arg, raw_arg, redacted_arg, args, raw_args, prepend_args, user
arg(c, v) == [c EXCEPT !.command = Append(@, Escaped(v))]

raw_arg(c, v) == [c EXCEPT !.command = Append(@, Raw(v))]

redacted_arg(c, v, placeholder) ==
  [c EXCEPT !.command =
     Append(@, [kind |-> "Escaped", value |-> v, display_placeholder |-> placeholder])]

args(c, vs) == [c EXCEPT !.command = @ \o [i \in 1..Len(vs) |-> Escaped(vs[i])]]

raw_args(c, vs) == [c EXCEPT !.command = @ \o [i \in 1..Len(vs) |-> Raw(vs[i])]]

\* prepend_args putting the new arguments after the ones the command has
prepend_args_after(c, vs) ==
  [c EXCEPT !.command = @ \o [i \in 1..Len(vs) |-> Escaped(vs[i])]]

prepend_args(c, vs) == [c EXCEPT !.command = [i \in 1..Len(vs) |-> Escaped(vs[i])] \o @]

\* user is Some(name), written <<name>>, or None, written <<>>
user(c, u) ==
  IF u # <<>> THEN prepend_args(c, <<"sudo", "--login", "--user", u[1]>>) ELSE c

\* run adding every argument the way it adds the first one
TransportArgs_as_first(k, c) ==
  IF k = "remote"
  THEN [i \in 1..Len(c.command) |-> [how |-> c.command[1].kind, value |-> c.command[i].value]]
  ELSE [i \in 1..Len(c.command) |-> [how |-> "verbatim", value |-> c.command[i]]]

\* what run hands to the transport, argument by argument: command(cmd) and
\* arg(arg) for an escaped one, raw_command(cmd) and raw_arg(arg) for a raw
\* one; process::Command::new(&command[0]).args(&command[1..]) for a local one
TransportArgs(k, c) ==
  IF k = "remote"
  THEN [i \in 1..Len(c.command) |-> [how |-> c.command[i].kind, value |-> c.command[i].value]]
  ELSE [i \in 1..Len(c.command) |-> [how |-> "verbatim", value |-> c.command[i]]]

\* LocalCommand::new
LocalCommand_new(argv) ==
  [command |-> argv,
   command_log_level |-> "Info",
   stdout_log_level |-> "Info",
   stderr_log_level |-> "Error",
   allow_failure |-> FALSE]

\* the argument lists commands are built from
Argvs == {<<>>, <<"cat", "/tmp/10">>}

\* what the builder calls are given: plain values, a value to keep out of the
\* logs with its placeholder, lists of values, users
PlainValues == {"psql", "-c"}
Secrets == {"hunter2"}
Placeholders == {"***"}
ArgLists == {<<>>, <<"-c">>, <<"env", "A=1">>}
Users == {<<>>, <<"postgres">>}

\* what upload is given: local path lists, and as remote_user None or
\* Some(name) for every name of up to MaxUserLen of these characters
\* (NonUtf8Path stands for a local path that is not UTF-8)
NonUtf8Path == "\\xff"
LocalPathLists == {<<"dist">>, <<"dist", NonUtf8Path>>}
UserChars == {"r", "_", " ", "é"}
RemoteUsers == {<<>>} \cup {<<name>> : name \in SeqsUpTo(UserChars, MaxUserLen)}

\* what the apt recipe is given and finds: packages, requests, what dpkg-query
\* can report of a package, and the ages the stamp file can have
Packages == {"rolldice", "nginx"}
PackageLists == {<<>>, <<"rolldice">>, <<"rolldice", "nginx">>, <<"nginx", "rolldice">>}
PkgStates == {"installed", "config-files", "unknown", "broken"}
\* const AUTO_UPDATE_PERIOD: Duration = Duration::from_secs(3600)
AUTO_UPDATE_PERIOD == 3600
EQUALS == 61
StampAges == {0 - 1, 0, AUTO_UPDATE_PERIOD - 1, AUTO_UPDATE_PERIOD, AUTO_UPDATE_PERIOD + 1}
NoStamp == [state |-> "absent", age |-> 0]
Stamps == {NoStamp, [state |-> "no-mtime", age |-> 0]}
            \cup {[state |-> "present", age |-> a] : a \in StampAges}

\* the user names the user recipe is given
UserNames == {"deploy", "www"}

\* the accounts env is asked about: the one the Session logs in with, or a
\* named one
EnvKeys == {<<>>} \cup {<<n>> : n \in UserNames}

\* the names the postgres recipe is given: the empty one, one of both
\* classes, one of the database class only and one of neither; the passwords
PgNames == {<<>>, <<"r", "_">>, <<"$">>, <<"r", " ">>}
Passwords == {<<"p", "w">>, <<"o", "'", "k">>}

ShellPaths == {"/bin/sh", "/bin/zsh"}

\* texts env prints before the SHELL line: nothing, the line A=b=c, and the
\* line A, which has no '='
EnvTexts == {<<>>, <<65, 61, 98, 61, 99, 10>>, <<65, 10>>}

(***************************************************************************)
(* The output pumps.  A pump is [st, vec, output, res]: st is idle,        *)
(* running or done; vec holds the bytes read and not yet cut into a line;  *)
(* output is the capture; res is none, ok, utf8 (a decoding error) or io   *)
(* (a failed read).                                                        *)
(***************************************************************************)
IdlePump == [st |-> "idle", vec |-> <<>>, output |-> <<>>, res |-> "none"]

Drained(vec, output, events, err) ==
  [vec |-> vec, output |-> output, events |-> events, err |-> err]

\* the inner loop decoding the whole buffer at every read, a partial last
\* character included
RECURSIVE remote_lines_decoding_buffer(_, _, _, _, _)
remote_lines_decoding_buffer(vec, output, events, level, prefix) ==
  LET index == position(vec) IN
  IF ~Utf8From(vec, 1) THEN Drained(vec, output, events, TRUE)
  ELSE IF index = 0 THEN Drained(vec, output, events, FALSE)
  ELSE LET line == SubSeq(vec, 1, index) IN
    remote_lines_decoding_buffer(SubSeq(vec, index + 1, Len(vec)),
                                 output \o line,
                                 Append(events, LogRecord(level, prefix \o SubSeq(line, 1, Len(line) - 1))),
                                 level, prefix)

\* the inner loop logging a line with its newline
RECURSIVE remote_lines_with_newline(_, _, _, _, _)
remote_lines_with_newline(vec, output, events, level, prefix) ==
  LET index == position(vec) IN
  IF index = 0 THEN Drained(vec, output, events, FALSE)
  ELSE LET line == SubSeq(vec, 1, index) IN
    IF ~Utf8From(line, 1) THEN Drained(vec, output, events, TRUE)
    ELSE remote_lines_with_newline(SubSeq(vec, index + 1, Len(vec)),
                                   output \o line,
                                   Append(events, LogRecord(level, prefix \o line)),
                                   level, prefix)

\* command.rs handle_output, the inner loop
\*   while let Some(index) = vec.iter().position(|i| *i == b'\n') { ... }
RECURSIVE remote_lines(_, _, _, _, _)
remote_lines(vec, output, events, level, prefix) ==
  LET index == position(vec) IN
  IF index = 0 THEN Drained(vec, output, events, FALSE)
  ELSE LET line == SubSeq(vec, 1, index) IN
    IF ~from_utf8_ok(line) THEN Drained(vec, output, events, TRUE)
    ELSE remote_lines(SubSeq(vec, index + 1, Len(vec)),
                      output \o line,
                      Append(events, LogRecord(level, prefix \o SubSeq(line, 1, Len(line) - 1))),
                      level, prefix)

\* the unterminated tail logged and not pushed to the capture
remote_eof_tail_not_captured(vec, output, events, level, prefix) ==
  IF vec = <<>> THEN Drained(vec, output, events, FALSE)
  ELSE IF ~Utf8From(vec, 1) THEN Drained(vec, output, events, TRUE)
  ELSE Drained(<<>>, output,
               Append(events, LogRecord(level, prefix \o vec \o EofMarker)), FALSE)

\* command.rs handle_output, after the loop: if !vec.is_empty() { ... }
remote_eof(vec, output, events, level, prefix) ==
  IF vec = <<>> THEN Drained(vec, output, events, FALSE)
  ELSE IF ~from_utf8_ok(vec) THEN Drained(vec, output, events, TRUE)
  ELSE Drained(<<>>, output \o vec,
               Append(events, LogRecord(level, prefix \o vec \o EofMarker)), FALSE)

\* std::io::Lines::next on a line that read_line returned: the final "\n" is
\* popped, and then a final "\r"
strip_line_ending(buf) ==
  IF buf # <<>> /\ buf[Len(buf)] = LF
  THEN LET cut == SubSeq(buf, 1, Len(buf) - 1) IN
       IF cut # <<>> /\ cut[Len(cut)] = CR THEN SubSeq(cut, 1, Len(cut) - 1) ELSE cut
  ELSE buf

\* the line written to the capture with write! in place of writeln!
local_line_written_without_newline(raw, output, events, level, prefix) ==
  LET line == strip_line_ending(raw) IN
  [output |-> output \o line,
   events |-> Append(events, LogRecord(level, prefix \o line))]

\* local.rs handle_output, one turn of `for line in reader.lines()`
local_line(raw, output, events, level, prefix) ==
  LET line == strip_line_ending(raw) IN
  [output |-> output \o line \o <<LF>>,
   events |-> Append(events, LogRecord(level, prefix \o line))]

\* local.rs handle_output: the lines that are complete in the bytes read so far
RECURSIVE local_lines(_, _, _, _, _)
local_lines(vec, output, events, level, prefix) ==
  LET index == position(vec) IN
  IF index = 0 THEN Drained(vec, output, events, FALSE)
  ELSE LET raw == SubSeq(vec, 1, index) IN
    IF ~from_utf8_ok(raw) THEN Drained(vec, output, events, TRUE)
    ELSE LET turn == local_line(raw, output, events, level, prefix) IN
         local_lines(SubSeq(vec, index + 1, Len(vec)), turn.output, turn.events, level, prefix)

\* local.rs handle_output: read_line at end of file returns what is left, if any
local_eof(vec, output, events, level, prefix) ==
  IF vec = <<>> THEN Drained(vec, output, events, FALSE)
  ELSE IF ~from_utf8_ok(vec) THEN Drained(vec, output, events, TRUE)
  ELSE LET turn == local_line(vec, output, events, level, prefix) IN
       Drained(<<>>, turn.output, turn.events, FALSE)

StreamLevel(s) == IF s = "stdout" THEN cmd.stdout_log_level ELSE cmd.stderr_log_level

\* the pump of stream s after d was computed from its buffer: it goes on, or
\* ends with the decoding error
AfterLines(s, d, atEof) ==
  /\ pump' = [pump EXCEPT ![s] =
       [st |-> IF d.err \/ atEof THEN "done" ELSE "running",
        vec |-> d.vec,
        output |-> d.output,
        res |-> IF d.err THEN "utf8" ELSE IF atEof THEN "ok" ELSE "none"]]
  /\ log' = [log EXCEPT ![s] = d.events]

\* the pump reading only once the wait for the child has returned
PumpRuns_after_wait(s) == pump[s].st = "running" /\ mainpc # "wait"

\* the pump of stream s is a task (a thread) of its own from the moment run
\* spawned it: it takes its steps whatever run itself is waiting for
PumpRuns(s) == pump[s].st = "running"

\* one read that returns n > 0 bytes, and the lines it completes
PumpRead(s) ==
  /\ PumpRuns(s)
  /\ pipe[s] # <<>>
  /\ \E n \in 1..Len(pipe[s]) :
       LET vec == pump[s].vec \o SubSeq(pipe[s], 1, n)
           d == IF kind = "remote"
                THEN remote_lines(vec, pump[s].output, log[s], StreamLevel(s), Prefix(s))
                ELSE local_lines(vec, pump[s].output, log[s], StreamLevel(s), Prefix(s))
       IN /\ pipe' = [pipe EXCEPT ![s] = SubSeq(pipe[s], n + 1, Len(pipe[s]))]
          /\ AfterLines(s, d, FALSE)
  /\ UNCHANGED <<kind, op, cmd, content, child, joined, mainpc, waitRes, result>>
  /\ UNCHANGED recipeVars

\* the read that returns 0: the pipe is empty and its write end is closed
PumpEof(s) ==
  /\ PumpRuns(s)
  /\ pipe[s] = <<>>
  /\ child.st = "exited"
  /\ LET d == IF kind = "remote"
              THEN remote_eof(pump[s].vec, pump[s].output, log[s], StreamLevel(s), Prefix(s))
              ELSE local_eof(pump[s].vec, pump[s].output, log[s], StreamLevel(s), Prefix(s))
     IN AfterLines(s, d, TRUE)
  /\ UNCHANGED <<kind, op, cmd, content, child, pipe, joined, mainpc, waitRes, result>>
  /\ UNCHANGED recipeVars

\* a read that fails: reader.read_buf(&mut vec).await? / let line = line?
PumpReadError(s) ==
  /\ pump[s].st = "running"
  /\ pump' = [pump EXCEPT ![s].st = "done", ![s].res = "io"]
  /\ UNCHANGED <<kind, op, cmd, content, child, pipe, joined, mainpc, waitRes, result, log>>
  /\ UNCHANGED recipeVars

(***************************************************************************)
(* The child and its two pipes.  content[s] is what the child writes to    *)
(* stream s before it ends; child.status is the status it ends with (an    *)
(* exit code, or None when a signal kills it).                             *)
(***************************************************************************)
Min(a, b) == IF a < b THEN a ELSE b

\* the child writes n more bytes of stream s: into the pipe while a pump holds
\* its read end (blocking while the pipe is full), to nowhere once the pump
\* has ended and dropped the reader
ChildWrite(s) ==
  /\ child.st = "running"
  /\ child.written[s] < Len(content[s])
  /\ LET left == Len(content[s]) - child.written[s]
         room == IF pump[s].st = "done" THEN left ELSE Min(left, PipeCap - Len(pipe[s]))
     IN /\ room > 0
        /\ \E n \in 1..room :
             /\ child' = [child EXCEPT !.written[s] = @ + n]
             /\ pipe' = IF pump[s].st = "done" THEN pipe
                        ELSE [pipe EXCEPT ![s] =
                               @ \o SubSeq(content[s], child.written[s] + 1, child.written[s] + n)]
  /\ UNCHANGED <<kind, op, cmd, content, pump, joined, mainpc, waitRes, result, log>>
  /\ UNCHANGED recipeVars

\* the child ends, having written everything; its pipes' write ends close
ChildExit ==
  /\ child.st = "running"
  /\ \A s \in Streams : child.written[s] = Len(content[s])
  /\ child' = [child EXCEPT !.st = "exited"]
  /\ UNCHANGED <<kind, op, cmd, content, pipe, pump, joined, mainpc, waitRes, result, log>>
  /\ UNCHANGED recipeVars

(***************************************************************************)
(* run and exit_code.  Command::run (command.rs) and LocalCommand::run     *)
(* (local.rs) take the same steps in the same order; the actions below     *)
(* serve both, and kind tells the two apart where their texts differ.      *)
(* result is what the called operation returned.                           *)
(***************************************************************************)
NoResult == [ok |-> FALSE, err |-> "pending"]
Err(e) == [ok |-> FALSE, err |-> e]
\* bail!("failed with exit code {}", exit_code) and, in local.rs,
\* bail!("local command failed with exit code {}", exit_code)
ExitCodeMessage(k) ==
  IF k = "remote" THEN "failed with exit code" ELSE "local command failed with exit code"
ErrExitCode(c) == [ok |-> FALSE, err |-> ExitCodeMessage(kind), code |-> c]
CommandOutput(c, out, errOut) ==
  [ok |-> TRUE, exit_code |-> c, stdout |-> out, stderr |-> errOut]
OkCode(c) == [ok |-> TRUE, value |-> c]

\* exit_code: .map(|output| output.exit_code) on what run returned
map_exit_code(r) == IF r.ok THEN OkCode(r.exit_code) ELSE r

\* what the operation o hands to its caller when its run returns r
Returned(o, r) == IF o = "exit_code" THEN map_exit_code(r) ELSE r

\* log!(self.command_log_level, "running {:?}", self.command)
RunningRecord(k, c) ==
  IF k = "remote"
  THEN LogRecord(c.command_log_level, <<"running ", DebugArgv(c.command)>>)
  ELSE LogRecord(c.command_log_level, <<"running local command: ", DebugStrings(c.command)>>)

\* the empty check left out
RejectEmpty_omitted(c) == FALSE

\* if self.command.is_empty() { bail!("cannot run empty command") }
RejectEmpty(c) == c.command = <<>>

\* run up to its first suspension: the empty check, the log record, the spawn
\* and the start of both pumps (the spawn succeeds here)
run_begin(o, c) ==
  /\ mainpc = "built"
  /\ op' = o
  /\ cmd' = c
  /\ IF RejectEmpty(c)
     THEN /\ result' = Returned(o, Err("cannot run empty command"))
          /\ mainpc' = "done"
          /\ UNCHANGED <<child, pump, log>>
     ELSE /\ log' = [log EXCEPT !.command = Append(@, RunningRecord(kind, c))]
          /\ child' = [child EXCEPT !.st = "running", !.sent = TransportArgs(kind, c)]
          /\ pump' = [s \in Streams |-> [IdlePump EXCEPT !.st = "running"]]
          /\ mainpc' = "wait"
          /\ UNCHANGED result
  /\ UNCHANGED <<kind, content, pipe, joined, waitRes>>
  /\ UNCHANGED recipeVars

\* run when the spawn fails: cmd.spawn().await? / .spawn()?
run_spawn_error(o, c) ==
  /\ mainpc = "built"
  /\ ~RejectEmpty(c)
  /\ op' = o
  /\ cmd' = c
  /\ log' = [log EXCEPT !.command = Append(@, RunningRecord(kind, c))]
  /\ result' = Returned(o, Err("spawn"))
  /\ mainpc' = "done"
  /\ UNCHANGED <<kind, content, child, pipe, pump, joined, waitRes>>
  /\ UNCHANGED recipeVars

\* the builder's allow_failure
allow_failure(c) == [c EXCEPT !.allow_failure = TRUE]

\* one builder call on the command not yet run
Build(c) ==
  /\ mainpc = "built"
  /\ Len(c.command) <= MaxArgs
  /\ cmd' = c
  /\ UNCHANGED <<kind, op, content, child, pipe, pump, joined, mainpc, waitRes, result, log>>
  /\ UNCHANGED recipeVars

BuildArg == \E v \in PlainValues : Build(arg(cmd, v))

BuildRawArg == \E v \in PlainValues : Build(raw_arg(cmd, v))

BuildRedactedArg == \E v \in Secrets : \E p \in Placeholders : Build(redacted_arg(cmd, v, p))

BuildArgs == \E vs \in ArgLists : Build(args(cmd, vs))

BuildRawArgs == \E vs \in ArgLists : Build(raw_args(cmd, vs))

BuildPrependArgs == \E vs \in ArgLists : Build(prepend_args(cmd, vs))

BuildUser == \E u \in Users : Build(user(cmd, u))

AllowFailure ==
  /\ mainpc = "built"
  /\ cmd' = allow_failure(cmd)
  /\ UNCHANGED <<kind, op, content, child, pipe, pump, joined, mainpc, waitRes, result, log>>
  /\ UNCHANGED recipeVars

Run == run_begin("run", cmd)

RunSpawnError == run_spawn_error("run", cmd)

\* exit_code calling run on the command as it is
exit_code_receiver_unchanged(c) == c

\* exit_code: self.allow_failure().run().await.map(...)
exit_code_receiver(c) == allow_failure(c)

ExitCode == run_begin("exit_code", exit_code_receiver(cmd))

ExitCodeSpawnError == run_spawn_error("exit_code", exit_code_receiver(cmd))

\* the flag read the wrong way round
FailsOnExitCode_flag_inverted(c, code) == c.allow_failure /\ code # 0

\* if !self.allow_failure && exit_code != 0 { bail!(...) }
FailsOnExitCode(c, code) == ~c.allow_failure /\ code # 0

\* a missing exit code read as the code -1: status.code().unwrap_or(-1)
status_check_signal_as_code(c, status) ==
  LET code == IF status = NoCode THEN 0 - 1 ELSE status[1] IN
  IF FailsOnExitCode(c, code) THEN ErrExitCode(code)
  ELSE [ok |-> TRUE, exit_code |-> code]

\* let exit_code = status.code().context("missing exit code")?;
\* if !self.allow_failure && exit_code != 0 { bail!("failed with exit code {}", exit_code); }
\* the error run returns at this point, or the exit code it goes on with
status_check(c, status) ==
  IF status = NoCode THEN Err("missing exit code")
  ELSE IF FailsOnExitCode(c, status[1]) THEN ErrExitCode(status[1])
  ELSE [ok |-> TRUE, exit_code |-> status[1]]

\* child.wait() returns: the status is looked at, and run either fails at once
\* or goes on to the joins
Wait ==
  /\ mainpc = "wait"
  /\ child.st = "exited"
  /\ waitRes' = "ok"
  /\ LET checked == status_check(cmd, child.status) IN
     IF checked.ok
     THEN /\ mainpc' = "join_stdout"
          /\ UNCHANGED result
     ELSE /\ result' = Returned(op, checked)
          /\ mainpc' = "done"
  /\ UNCHANGED <<kind, op, cmd, content, child, pipe, pump, joined, log>>
  /\ UNCHANGED recipeVars

\* child.wait() fails: let status = child.wait().await?
WaitError ==
  /\ mainpc = "wait"
  /\ waitRes' = "failed"
  /\ result' = Returned(op, Err("wait"))
  /\ mainpc' = "done"
  /\ UNCHANGED <<kind, op, cmd, content, child, pipe, pump, joined, log>>
  /\ UNCHANGED recipeVars

\* stdout: stdout_task.await??  -- the first field of the CommandOutput
JoinStdout ==
  /\ mainpc = "join_stdout"
  /\ pump["stdout"].st = "done"
  /\ joined' = [joined EXCEPT !["stdout"] = TRUE]
  /\ IF pump["stdout"].res = "ok"
     THEN /\ mainpc' = "join_stderr"
          /\ UNCHANGED result
     ELSE /\ result' = Returned(op, Err(pump["stdout"].res))
          /\ mainpc' = "done"
  /\ UNCHANGED <<kind, op, cmd, content, child, pipe, pump, waitRes, log>>
  /\ UNCHANGED recipeVars

\* the two captures put in each other's field
Output_swapped(code, outCapture, errCapture) == CommandOutput(code, errCapture, outCapture)

\* the CommandOutput run returns once both pumps are joined
Output(code, outCapture, errCapture) == CommandOutput(code, outCapture, errCapture)

\* stderr: stderr_task.await??  -- the second field, and the Ok(...) itself
JoinStderr ==
  /\ mainpc = "join_stderr"
  /\ pump["stderr"].st = "done"
  /\ joined' = [joined EXCEPT !["stderr"] = TRUE]
  /\ result' = IF pump["stderr"].res = "ok"
               THEN Returned(op, Output(status_check(cmd, child.status).exit_code, pump["stdout"].output, pump["stderr"].output))
               ELSE Returned(op, Err(pump["stderr"].res))
  /\ mainpc' = "done"
  /\ UNCHANGED <<kind, op, cmd, content, child, pipe, pump, waitRes, log>>
  /\ UNCHANGED recipeVars

(***************************************************************************)
(* Recipes.  A recipe call is made on a Session the caller holds           *)
(* exclusively (&mut), so nothing else touches the Session between its     *)
(* steps; a call is one action.  call.effects lists what the call did, in  *)
(* order: SFTP requests, remote commands run and local commands run.       *)
(***************************************************************************)
OkUnit == [ok |-> TRUE]

Sftp(request, path) == [via |-> "sftp", argv |-> <<request, path>>]
RemoteRun(argv) == [via |-> "remote", argv |-> argv]
LocalRun(c) == [via |-> "local", argv |-> c.command]

\* before is empty, or holds the call made just before this one (kept by the
\* recipes whose calls are compared with the previous one)
NoCall == [name |-> "none", args |-> <<>>, effects |-> <<>>, result |-> NoResult,
           before |-> <<>>]

\* the recipe name was called with the arguments given, did done.effects and
\* returned done.result
Called(name, given, done) ==
  call' = [name |-> name, args |-> given, effects |-> done.effects, result |-> done.result,
           before |-> <<>>]

\* the same, keeping the call made before
CalledAfter(name, given, done) ==
  call' = [name |-> name, args |-> given, effects |-> done.effects, result |-> done.result,
           before |-> <<[name |-> call.name, args |-> call.args, effects |-> call.effects,
                         result |-> call.result]>>]

\* a Session as Session::connect leaves it: nothing cached; port and user are
\* Some(x), written <<x>>, or None, written <<>>
NewSession(port, login) ==
  [destination |-> "example.org", port |-> port, user |-> login, cache |-> {},
   env_cache |-> <<>>]

\* Command::hide_command, LocalCommand::hide_command
hide_command(c) == [c EXCEPT !.command_log_level = "Trace"]

\* LocalCommand::arg, LocalCommand::args
LocalCommand_arg(c, v) == [c EXCEPT !.command = Append(@, v)]
LocalCommand_args(c, vs) == [c EXCEPT !.command = @ \o vs]

(***************************************************************************)
(* Session::upload (recipes/rsync.rs).  host.dir is what the remote parent *)
(* path is on the host: absent, a file, a directory, or something whose    *)
(* metadata carries no file type.                                          *)
(***************************************************************************)
RemoteDir == "/srv/www"

\* char::is_ascii_alphanumeric
AsciiAlphanumeric ==
  {"A", "B", "C", "D", "E", "F", "G", "H", "I", "J", "K", "L", "M", "N",
   "O", "P", "Q", "R", "S", "T", "U", "V", "W", "X", "Y", "Z", "a", "b",
   "c", "d", "e", "f", "g", "h", "i", "j", "k", "l", "m", "n", "o", "p",
   "q", "r", "s", "t", "u", "v", "w", "x", "y", "z", "0", "1", "2", "3",
   "4", "5", "6", "7", "8", "9"}

\* the closure given to any(): !(c.is_ascii_alphanumeric() || c == '.' || c == '_' || c == '-')
unsafe_char(c) == ~(c \in AsciiAlphanumeric \/ c = "." \/ c = "_" \/ c = "-")

\* remote_user.chars().any(..)
any_unsafe_char(name) == \E i \in 1..Len(name) : unsafe_char(name[i])

\* arg.as_ref().to_str() is Some
to_str_ok(path) == path # NonUtf8Path

\* the directory test passed by anything that exists
is_dir_any_type(h) ==
  IF h.dir = "absent" THEN Err("metadata") ELSE OkUnit

\* self.fs.metadata(path).await?.file_type().context(..)?.is_dir(), and the bail!
is_dir(h) ==
  IF h.dir = "absent" THEN Err("metadata")
  ELSE IF h.dir = "notype" THEN Err("missing file type for remote_parent_path")
  ELSE IF h.dir # "dir" THEN Err("upload destination is not a directory")
  ELSE OkUnit

\* a name, kept as the sequence of its chars, as one string
RECURSIVE Text(_)
Text(name) == IF name = <<>> THEN "" ELSE Head(name) \o Text(Tail(name))

\* the local rsync command upload builds
rsync_command(sess, local_paths, remote_parent_path, remote_user) ==
  LET new == hide_command(LocalCommand_new(
               <<"rsync", "--itemize-changes", "--recursive", "--links", "--perms",
                 "--times", "--compress", "--delete">>))
      with_user == IF remote_user # <<>>
                   THEN LocalCommand_arg(LocalCommand_arg(new, "--rsync-path"),
                                         "sudo --user " \o Text(remote_user[1]) \o " rsync")
                   ELSE new
      with_paths == LocalCommand_args(with_user, local_paths)
      with_port == IF sess.port # <<>>
                   THEN LocalCommand_args(with_paths, <<"--rsh", "ssh -p " \o ToString(sess.port[1])>>)
                   ELSE with_paths
      destination == IF sess.user # <<>>
                     THEN sess.user[1] \o "@" \o sess.destination
                     ELSE sess.destination
  IN LocalCommand_arg(with_port, destination \o ":" \o remote_parent_path)

\* upload: what it does and returns; rsync_runs tells whether the local
\* rsync's run returns Ok
upload(sess, h, local_paths, remote_parent_path, remote_user, rsync_runs) ==
  LET probe == <<Sftp("metadata", remote_parent_path)>>
      checked == is_dir(h)
  IN IF ~checked.ok THEN [effects |-> probe, result |-> checked]
     ELSE IF remote_user # <<>> /\ any_unsafe_char(remote_user[1])
     THEN [effects |-> probe, result |-> Err("unsafe user")]
     ELSE IF \E i \in 1..Len(local_paths) : ~to_str_ok(local_paths[i])
     THEN [effects |-> probe, result |-> Err("non-utf8 path")]
     ELSE [effects |-> Append(probe, LocalRun(rsync_command(sess, local_paths,
                                                            remote_parent_path, remote_user))),
           result |-> IF rsync_runs THEN OkUnit ELSE Err("local rsync")]

Upload ==
  \E local_paths \in LocalPathLists, remote_user \in RemoteUsers, rsync_runs \in BOOLEAN :
    LET done == upload(session, host, local_paths, RemoteDir, remote_user, rsync_runs) IN
    /\ Called("upload", <<local_paths, RemoteDir, remote_user>>, done)
    /\ UNCHANGED <<session, host>>
    /\ UNCHANGED runVars

(***************************************************************************)
(* The apt recipe (recipes/apt.rs).  host.pkgs[p] is what dpkg-query       *)
(* reports for package p; host.stamp is the update-success-stamp file, age *)
(* being the caller's current time minus the file's modification time, in  *)
(* seconds (negative for a time in the future).                            *)
(***************************************************************************)
PackageListUpdated == "PackageListUpdated"

StampPath == "/var/lib/apt/periodic/update-success-stamp"

\* the rule taking no notice of the cache
cached_ignored(sess) == FALSE

\* session.cache().contains::<PackageListUpdated>()
cached(sess) == PackageListUpdated \in sess.cache

\* session.cache().insert(PackageListUpdated)
insert(sess) == [sess EXCEPT !.cache = @ \cup {PackageListUpdated}]

\* update_package_list marking the cache whether or not the update ran
update_package_list_marking_always(sess, update_runs) ==
  [effects |-> <<RemoteRun(<<"apt-get", "update">>)>>,
   result |-> IF update_runs THEN OkUnit ELSE Err("apt-get update"),
   session |-> insert(sess)]

\* Apt::update_package_list; update_runs tells whether `apt-get update` runs
\* to exit code 0
update_package_list(sess, update_runs) ==
  [effects |-> <<RemoteRun(<<"apt-get", "update">>)>>,
   result |-> IF update_runs THEN OkUnit ELSE Err("apt-get update"),
   session |-> IF update_runs THEN insert(sess) ELSE sess]

\* what the run of dpkg-query with allow_failure returns for package p
dpkg_query(h, p) ==
  IF h.pkgs[p] = "installed" THEN CommandOutput(0, "installed", "")
  ELSE IF h.pkgs[p] = "config-files" THEN CommandOutput(0, "config-files", "")
  ELSE IF h.pkgs[p] = "unknown" THEN CommandOutput(1, "", "no packages found")
  ELSE CommandOutput(2, "", "error")

\* is_package_installed answering false whatever dpkg-query reports
is_package_installed_never(h, p) ==
  [effects |-> <<RemoteRun(<<"dpkg-query", "--show", "--showformat=${db:Status-Status}", p>>)>>,
   result |-> OkCode(FALSE)]

\* Apt::is_package_installed
is_package_installed(h, p) ==
  LET output == dpkg_query(h, p) IN
  [effects |-> <<RemoteRun(<<"dpkg-query", "--show", "--showformat=${db:Status-Status}", p>>)>>,
   result |-> IF output.exit_code = 0 THEN OkCode(output.stdout = "installed")
              ELSE IF output.exit_code = 1 THEN OkCode(FALSE)
              ELSE Err("command failed")]

\* Apt::install, the loop: the probes made and the packages found missing, up
\* to the first probe that fails
RECURSIVE new_packages(_, _, _, _)
new_packages(h, packages, effects, new) ==
  IF packages = <<>> THEN [effects |-> effects, new |-> new, result |-> OkUnit]
  ELSE LET probe == is_package_installed(h, Head(packages)) IN
    IF ~probe.result.ok
    THEN [effects |-> effects \o probe.effects, new |-> new, result |-> probe.result]
    ELSE new_packages(h, Tail(packages), effects \o probe.effects,
                      IF probe.result.value THEN new ELSE Append(new, Head(packages)))

\* Apt::install; install_runs tells whether `apt-get install` runs to exit
\* code 0, which leaves the packages installed
install(sess, h, packages, install_runs) ==
  LET loop == new_packages(h, packages, <<>>, <<>>) IN
  IF ~loop.result.ok
  THEN [effects |-> loop.effects, result |-> loop.result, session |-> sess, host |-> h]
  ELSE IF loop.new = <<>>
  THEN [effects |-> loop.effects, result |-> OkUnit, session |-> sess, host |-> h]
  ELSE [effects |-> Append(loop.effects,
                           RemoteRun(<<"apt-get", "install", "--yes">> \o loop.new)),
        result |-> IF install_runs THEN OkUnit ELSE Err("apt-get install"),
        session |-> sess,
        host |-> IF install_runs
                 THEN [h EXCEPT !.pkgs = [p \in DOMAIN @ |->
                         IF \E i \in 1..Len(loop.new) : loop.new[i] = p
                         THEN "installed" ELSE @[p]]]
                 ELSE h]

\* last_update_time: Some(age of the stamp), written <<age>>, or None
last_update_time(h) ==
  IF h.stamp.state = "present" THEN <<h.stamp.age>> ELSE <<>>

\* SystemTime::elapsed is an error for a time later than now
elapsed_ok(age) == age >= 0

\* update_package_list_unless_cached
update_package_list_unless_cached(sess, h, update_runs) ==
  IF cached(sess) THEN [effects |-> <<>>, result |-> OkUnit, session |-> sess]
  ELSE LET probe == <<Sftp("metadata", StampPath)>>
           last_updated == last_update_time(h)
       IN IF last_updated # <<>> /\ ~elapsed_ok(last_updated[1])
          THEN [effects |-> probe, result |-> Err("second time provided was later than self"),
                session |-> sess]
          ELSE IF last_updated # <<>> /\ last_updated[1] < AUTO_UPDATE_PERIOD
          THEN [effects |-> probe, result |-> OkUnit, session |-> insert(sess)]
          ELSE LET update == update_package_list(sess, update_runs) IN
               [effects |-> probe \o update.effects, result |-> update.result,
                session |-> update.session]

\* Apt::upgrade_system
upgrade_system(sess, h, update_runs, upgrade_runs) ==
  LET rule == update_package_list_unless_cached(sess, h, update_runs) IN
  IF ~rule.result.ok THEN rule
  ELSE [effects |-> Append(rule.effects,
                           RemoteRun(<<"DEBIAN_FRONTEND=noninteractive", "apt-get",
                                       "dist-upgrade", "--yes">>)),
        result |-> IF upgrade_runs THEN OkUnit ELSE Err("apt-get dist-upgrade"),
        session |-> rule.session]

UpdatePackageList ==
  \E update_runs \in BOOLEAN :
    LET done == update_package_list(session, update_runs) IN
    /\ Called("update_package_list", <<>>, done)
    /\ session' = done.session
    /\ UNCHANGED host
    /\ UNCHANGED runVars

IsPackageInstalled ==
  \E p \in Packages :
    /\ Called("is_package_installed", <<p>>, is_package_installed(host, p))
    /\ UNCHANGED <<session, host>>
    /\ UNCHANGED runVars

Install ==
  \E packages \in PackageLists, install_runs \in BOOLEAN :
    LET done == install(session, host, packages, install_runs) IN
    /\ Called("install", <<packages>>, done)
    /\ session' = done.session
    /\ host' = done.host
    /\ UNCHANGED runVars

UpgradeSystem ==
  \E update_runs \in BOOLEAN, upgrade_runs \in BOOLEAN :
    LET done == upgrade_system(session, host, update_runs, upgrade_runs) IN
    /\ Called("upgrade_system", <<>>, done)
    /\ session' = done.session
    /\ UNCHANGED host
    /\ UNCHANGED runVars

(***************************************************************************)
(* The user recipe (recipes/user.rs).  host.users is the set of users that *)
(* exist on the host; host.id_fails tells whether `id` fails there for a   *)
(* reason of its own.                                                      *)
(***************************************************************************)
\* the exit code of `id --user name`: 0 for a user that exists, 1 for one
\* that does not, another one when id itself fails
id_exit_code(h, name) ==
  IF h.id_fails THEN 127 ELSE IF name \in h.users THEN 0 ELSE 1

\* the match of user_exists with exit code 1 taken for a failure
user_exists_only_zero(h, name) ==
  LET code == id_exit_code(h, name) IN
  [effects |-> <<RemoteRun(<<"id", "--user", name>>)>>,
   result |-> IF code = 0 THEN OkCode(TRUE) ELSE Err("unexpected exit code")]

\* Session::user_exists
user_exists(h, name) ==
  LET code == id_exit_code(h, name) IN
  [effects |-> <<RemoteRun(<<"id", "--user", name>>)>>,
   result |-> IF code = 0 THEN OkCode(TRUE)
              ELSE IF code = 1 THEN OkCode(FALSE)
              ELSE Err("unexpected exit code")]

\* create_user running useradd without asking whether the user exists
create_user_unconditional(h, name, useradd_runs) ==
  [effects |-> <<RemoteRun(<<"useradd", "--create-home", name>>)>>,
   result |-> IF useradd_runs THEN OkUnit ELSE Err("useradd"),
   host |-> IF useradd_runs THEN [h EXCEPT !.users = @ \cup {name}] ELSE h]

\* Session::create_user; useradd_runs tells whether useradd runs to exit code
\* 0, which leaves the user on the host
create_user(h, name, useradd_runs) ==
  LET probe == user_exists(h, name) IN
  IF ~probe.result.ok THEN [effects |-> probe.effects, result |-> probe.result, host |-> h]
  ELSE IF probe.result.value THEN [effects |-> probe.effects, result |-> OkUnit, host |-> h]
  ELSE [effects |-> Append(probe.effects, RemoteRun(<<"useradd", "--create-home", name>>)),
        result |-> IF useradd_runs THEN OkUnit ELSE Err("useradd"),
        host |-> IF useradd_runs THEN [h EXCEPT !.users = @ \cup {name}] ELSE h]

UserExists ==
  \E name \in UserNames :
    /\ CalledAfter("user_exists", <<name>>, user_exists(host, name))
    /\ UNCHANGED <<session, host>>
    /\ UNCHANGED runVars

CreateUser ==
  \E name \in UserNames, useradd_runs \in BOOLEAN :
    LET done == create_user(host, name, useradd_runs) IN
    /\ CalledAfter("create_user", <<name>>, done)
    /\ host' = done.host
    /\ UNCHANGED session
    /\ UNCHANGED runVars

(***************************************************************************)
(* The env recipe (recipes/env.rs).  host.shell[u] is the login shell of   *)
(* the account u, <<>> being the account the Session logs in with;         *)
(* host.env_extra[u] is what `env` prints for u before the SHELL line.      *)
(* session.env_cache is the EnvCache entry of the Session's cache: <<>>    *)
(* while there is none.  A map of variables is a function from names to    *)
(* values, both byte strings.                                              *)
(***************************************************************************)
\* the bytes of the shells' paths and of the name SHELL
as_bytes(path) ==
  IF path = "/bin/sh" THEN <<47, 98, 105, 110, 47, 115, 104>>
  ELSE <<47, 98, 105, 110, 47, 122, 115, 104>>

SHELL == <<83, 72, 69, 76, 76>>

\* what `env` prints for the account u
env_stdout(h, u) == h.env_extra[u] \o SHELL \o <<EQUALS>> \o as_bytes(h.shell[u]) \o <<LF>>

\* the index of the first byte b of text, 0 when there is none
find(text, b) ==
  IF \E i \in 1..Len(text) : text[i] = b
  THEN CHOOSE i \in 1..Len(text) : text[i] = b /\ \A j \in 1..(i - 1) : text[j] # b
  ELSE 0

\* str::split: the pieces between the separators, the last one included
RECURSIVE split(_, _)
split(text, sep) ==
  LET i == find(text, sep) IN
  IF i = 0 THEN <<text>>
  ELSE <<SubSeq(text, 1, i - 1)>> \o split(SubSeq(text, i + 1, Len(text)), sep)

\* BTreeMap::insert
map_insert(map, name, value) ==
  [n \in (DOMAIN map) \cup {name} |-> IF n = name THEN value ELSE map[n]]

\* the loop passing over a line without '='
RECURSIVE parse_lines_skipping(_, _)
parse_lines_skipping(lines, map) ==
  IF lines = <<>> THEN OkCode(map)
  ELSE LET line == Head(lines)
           i == find(line, EQUALS)
       IN IF line = <<>> \/ i = 0 THEN parse_lines_skipping(Tail(lines), map)
          ELSE parse_lines_skipping(Tail(lines),
                                    map_insert(map, SubSeq(line, 1, i - 1),
                                               SubSeq(line, i + 1, Len(line))))

\* the loop of env over the lines of the output: empty lines are skipped, a
\* line is cut at its first '=' (splitn(2, '=')), a line without one ends
\* the call with an error
RECURSIVE parse_lines(_, _)
parse_lines(lines, map) ==
  IF lines = <<>> THEN OkCode(map)
  ELSE LET line == Head(lines)
           i == find(line, EQUALS)
       IN IF line = <<>> THEN parse_lines(Tail(lines), map)
          ELSE IF i = 0 THEN Err("missing '=' in env output")
          ELSE parse_lines(Tail(lines),
                           map_insert(map, SubSeq(line, 1, i - 1),
                                      SubSeq(line, i + 1, Len(line))))

\* EnvCache::default
EnvCache == [current_user |-> <<>>, other_users |-> <<>>]

\* has_user finding no entry at all
has_user_never(cache, u) == FALSE

\* EnvCache::has_user
has_user(cache, u) ==
  IF u # <<>> THEN u[1] \in DOMAIN cache.other_users ELSE cache.current_user # <<>>

\* cache().get::<EnvCache>().map_or(false, |c| c.has_user(user))
cache_has_user(sess, u) ==
  IF sess.env_cache = <<>> THEN FALSE ELSE has_user(sess.env_cache[1], u)

\* entry::<EnvCache>().or_insert_with(EnvCache::default), then the insert of
\* the map under the user
store(sess, u, map) ==
  LET cache == IF sess.env_cache = <<>> THEN EnvCache ELSE sess.env_cache[1] IN
  [sess EXCEPT !.env_cache =
     <<IF u # <<>>
       THEN [cache EXCEPT !.other_users = map_insert(@, u[1], map)]
       ELSE [cache EXCEPT !.current_user = <<map>>]>>]

\* the entry env returns a reference to
entry(sess, u) ==
  IF u # <<>> THEN sess.env_cache[1].other_users[u[1]]
  ELSE sess.env_cache[1].current_user[1]

\* the values of a command's arguments
Argv(c) == [i \in 1..Len(c.command) |-> c.command[i].value]

\* Session::env; env_runs tells whether the command runs to exit code 0,
\* which it cannot for a user the host does not have
env(sess, h, u, env_runs) ==
  IF cache_has_user(sess, u)
  THEN [effects |-> <<>>, result |-> OkCode(entry(sess, u)), session |-> sess]
  ELSE LET c == hide_command(user(command(<<"env">>), u))
           ran == <<RemoteRun(Argv(c))>>
           parsed == parse_lines(split(env_stdout(h, u), LF), <<>>)
       IN IF ~env_runs \/ (u # <<>> /\ u[1] \notin h.users)
          THEN [effects |-> ran, result |-> Err("env"), session |-> sess]
          ELSE IF ~parsed.ok
          THEN [effects |-> ran, result |-> parsed, session |-> sess]
          ELSE [effects |-> ran, result |-> OkCode(parsed.value),
                session |-> store(sess, u, parsed.value)]

\* Session::shell: the variable SHELL of env(user), as a path
shell(sess, h, u, env_runs) ==
  LET got == env(sess, h, u, env_runs) IN
  IF ~got.result.ok THEN got
  ELSE IF SHELL \notin DOMAIN got.result.value
  THEN [got EXCEPT !.result = Err("missing remote env var \"SHELL\"")]
  ELSE [got EXCEPT !.result = OkCode(got.result.value[SHELL])]

\* Session::set_shell; chsh_runs tells whether chsh runs to exit code 0,
\* which makes path the login shell of the account
set_shell(sess, h, path, u, env_runs, chsh_runs) ==
  LET got == shell(sess, h, u, env_runs)
      chsh == IF u # <<>> THEN arg(command(<<"chsh", "-s", path>>), u[1])
              ELSE command(<<"chsh", "-s", path>>)
  IN IF ~got.result.ok
     THEN [effects |-> got.effects, result |-> got.result, session |-> got.session, host |-> h]
     ELSE IF got.result.value # as_bytes(path)
     THEN [effects |-> Append(got.effects, RemoteRun(Argv(chsh))),
           result |-> IF chsh_runs THEN OkUnit ELSE Err("chsh"),
           session |-> got.session,
           host |-> IF chsh_runs THEN [h EXCEPT !.shell[u] = path] ELSE h]
     ELSE [effects |-> got.effects, result |-> OkUnit, session |-> got.session, host |-> h]

Env ==
  \E u \in EnvKeys, env_runs \in BOOLEAN :
    LET done == env(session, host, u, env_runs) IN
    /\ Called("env", <<u>>, done)
    /\ session' = done.session
    /\ UNCHANGED host
    /\ UNCHANGED runVars

Shell ==
  \E u \in EnvKeys, env_runs \in BOOLEAN :
    LET done == shell(session, host, u, env_runs) IN
    /\ Called("shell", <<u>>, done)
    /\ session' = done.session
    /\ UNCHANGED host
    /\ UNCHANGED runVars

SetShell ==
  \E path \in ShellPaths, u \in EnvKeys, env_runs \in BOOLEAN, chsh_runs \in BOOLEAN :
    LET done == set_shell(session, host, path, u, env_runs, chsh_runs) IN
    /\ Called("set_shell", <<path, u>>, done)
    /\ session' = done.session
    /\ host' = done.host
    /\ UNCHANGED runVars

(***************************************************************************)
(* The postgres recipe (recipes/postgres.rs).  Names, passwords and the    *)
(* SQL texts made of them are sequences of characters, turned into one     *)
(* string where they become an argument.  host.roles holds the roles of    *)
(* the server with their passwords, host.dbs its databases and             *)
(* host.grants the (database, role) pairs granted.                         *)
(***************************************************************************)
\* user.chars().all(|c| c.is_ascii_alphanumeric() || c == '_')
valid_user(name) ==
  \A i \in 1..Len(name) : name[i] \in AsciiAlphanumeric \/ name[i] = "_"

\* name.chars().all(|c| c.is_ascii_alphanumeric() || c == '_' || c == '$')
valid_database(name) ==
  \A i \in 1..Len(name) : name[i] \in AsciiAlphanumeric \/ name[i] = "_" \/ name[i] = "$"

\* format_sql_query::QuotedData: the text between single quotes, every
\* single quote of it doubled
RECURSIVE QuotedBody(_)
QuotedBody(text) ==
  IF text = <<>> THEN <<>>
  ELSE (IF Head(text) = "'" THEN <<"'", "'">> ELSE <<Head(text)>>) \o QuotedBody(Tail(text))

QuotedData(text) == <<"'">> \o QuotedBody(text) \o <<"'">>

\* format!("CREATE USER {} WITH PASSWORD {}", user, quoted)
create_user_sql(name, quoted) ==
  <<"C", "R", "E", "A", "T", "E", " ", "U", "S", "E", "R", " ">> \o name
    \o <<" ", "W", "I", "T", "H", " ", "P", "A", "S", "S", "W", "O", "R", "D", " ">>
    \o quoted

\* "<redacted>"
Redacted == <<"<", "r", "e", "d", "a", "c", "t", "e", "d", ">">>

\* the placeholder made with the password itself
placeholder_with_password(name, password) == create_user_sql(name, QuotedData(password))

\* the second format! of create_user_with_password
placeholder(name, password) == create_user_sql(name, QuotedData(Redacted))

\* .prepend_args(["sudo", "--user", "postgres", "--login"])
as_postgres(c) == prepend_args(c, <<"sudo", "--user", "postgres", "--login">>)

\* a remote command run, with what its "running" record shows of it
RemoteCommand(c) == [via |-> "remote", argv |-> Argv(c), shown |-> DebugArgv(c.command)]

\* what psql --tuples-only prints for SELECT 1 with and without a row
psql_stdout(found) == IF found THEN <<32, 49, 10, 10>> ELSE <<10>>

\* a probe whose answer is never taken for a row
contains_never(stdout, ch) == FALSE

\* stdout.contains(ch)
contains(stdout, ch) == \E i \in 1..Len(stdout) : stdout[i] = ch

has_role(h, name) == \E r \in h.roles : r.name = name

\* Postgres::create_user_with_password; probe_runs and create_runs tell
\* whether the two psql commands run to exit code 0, which the second cannot
\* for an empty name
create_user_with_password(h, name, password, probe_runs, create_runs) ==
  LET probe == RemoteCommand(hide_command(as_postgres(command(
                 <<"psql", "--tuples-only", "--command",
                   "SELECT 1 FROM pg_roles WHERE rolname = " \o Text(QuotedData(name))>>))))
      role_exists == contains(psql_stdout(has_role(h, name)), 49)
      create == RemoteCommand(as_postgres(redacted_arg(
                  command(<<"psql", "--command">>),
                  Text(create_user_sql(name, QuotedData(password))),
                  Text(placeholder(name, password)))))
  IN IF ~valid_user(name)
     THEN [effects |-> <<>>, result |-> Err("invalid postgres user name"), host |-> h]
     ELSE IF ~probe_runs
     THEN [effects |-> <<probe>>, result |-> Err("psql"), host |-> h]
     ELSE IF role_exists
     THEN [effects |-> <<probe>>, result |-> OkUnit, host |-> h]
     ELSE IF ~create_runs \/ name = <<>>
     THEN [effects |-> <<probe, create>>, result |-> Err("psql"), host |-> h]
     ELSE [effects |-> <<probe, create>>, result |-> OkUnit,
           host |-> [h EXCEPT !.roles = @ \cup {[name |-> name, password |-> password]}]]

\* Postgres::create_database
create_database(h, name, probe_runs, create_runs) ==
  LET probe == RemoteCommand(hide_command(as_postgres(command(
                 <<"psql", "--tuples-only", "--command",
                   "SELECT 1 FROM pg_database WHERE datname = " \o Text(QuotedData(name))>>))))
      db_exists == contains(psql_stdout(name \in h.dbs), 49)
      create == RemoteCommand(as_postgres(command(
                  <<"psql", "--command", "CREATE DATABASE " \o Text(name)>>)))
  IN IF ~valid_database(name)
     THEN [effects |-> <<>>, result |-> Err("invalid postgres database name"), host |-> h]
     ELSE IF ~probe_runs
     THEN [effects |-> <<probe>>, result |-> Err("psql"), host |-> h]
     ELSE IF db_exists
     THEN [effects |-> <<probe>>, result |-> OkUnit, host |-> h]
     ELSE IF ~create_runs \/ name = <<>>
     THEN [effects |-> <<probe, create>>, result |-> Err("psql"), host |-> h]
     ELSE [effects |-> <<probe, create>>, result |-> OkUnit,
           host |-> [h EXCEPT !.dbs = @ \cup {name}]]

\* Postgres::grant_all_privileges; grant_runs tells whether psql runs to exit
\* code 0, which it cannot where the database or the role is missing
grant_all_privileges(h, database, name, grant_runs) ==
  LET grant == RemoteCommand(as_postgres(command(
                 <<"psql", "--command",
                   "GRANT ALL PRIVILEGES ON DATABASE " \o Text(database) \o " TO " \o Text(name)>>)))
  IN IF ~valid_user(name)
     THEN [effects |-> <<>>, result |-> Err("invalid postgres user name"), host |-> h]
     ELSE IF ~valid_database(database)
     THEN [effects |-> <<>>, result |-> Err("invalid postgres database name"), host |-> h]
     ELSE IF ~grant_runs \/ database \notin h.dbs \/ ~has_role(h, name)
     THEN [effects |-> <<grant>>, result |-> Err("psql"), host |-> h]
     ELSE [effects |-> <<grant>>, result |-> OkUnit,
           host |-> [h EXCEPT !.grants = @ \cup {<<database, name>>}]]

CreateUserWithPassword ==
  \E name \in PgNames, password \in Passwords, probe_runs \in BOOLEAN, create_runs \in BOOLEAN :
    LET done == create_user_with_password(host, name, password, probe_runs, create_runs) IN
    /\ Called("create_user_with_password", <<name, password>>, done)
    /\ host' = done.host
    /\ UNCHANGED session
    /\ UNCHANGED runVars

CreateDatabase ==
  \E name \in PgNames, probe_runs \in BOOLEAN, create_runs \in BOOLEAN :
    LET done == create_database(host, name, probe_runs, create_runs) IN
    /\ Called("create_database", <<name>>, done)
    /\ host' = done.host
    /\ UNCHANGED session
    /\ UNCHANGED runVars

GrantAllPrivileges ==
  \E database \in PgNames, name \in PgNames, grant_runs \in BOOLEAN :
    LET done == grant_all_privileges(host, database, name, grant_runs) IN
    /\ Called("grant_all_privileges", <<database, name>>, done)
    /\ host' = done.host
    /\ UNCHANGED session
    /\ UNCHANGED runVars

(***************************************************************************)
(* The builder's severity setters, the same in Command (command.rs) and in *)
(* LocalCommand (local.rs).                                                *)
(***************************************************************************)
\* log::Level
Levels == {"Error", "Warn", "Info", "Debug", "Trace"}

hide_stdout(c) == [c EXCEPT !.stdout_log_level = "Trace"]

stdout_log_level(c, level) == [c EXCEPT !.stdout_log_level = level]

hide_stderr(c) == [c EXCEPT !.stderr_log_level = "Trace"]

stderr_log_level(c, level) == [c EXCEPT !.stderr_log_level = level]

command_log_level(c, level) == [c EXCEPT !.command_log_level = level]

\* hide_all_output lowering the command's own records as well
hide_all_output_with_command(c) == hide_command(hide_stderr(hide_stdout(c)))

\* self.hide_stdout().hide_stderr()
hide_all_output(c) == hide_stderr(hide_stdout(c))

HideStdout == Build(hide_stdout(cmd))

HideStderr == Build(hide_stderr(cmd))

HideAllOutput == Build(hide_all_output(cmd))

HideCommand == Build(hide_command(cmd))

StdoutLogLevel == \E level \in Levels : Build(stdout_log_level(cmd, level))

StderrLogLevel == \E level \in Levels : Build(stderr_log_level(cmd, level))

CommandLogLevel == \E level \in Levels : Build(command_log_level(cmd, level))

LocalArg == \E v \in PlainValues : Build(LocalCommand_arg(cmd, v))

LocalArgs == \E vs \in ArgLists : Build(LocalCommand_args(cmd, vs))

(***************************************************************************)
(* Specifications.                                                         *)
(***************************************************************************)
NewCommand(k, argv) == IF k = "remote" THEN command(argv) ELSE LocalCommand_new(argv)

\* a host for the specifications of a single run, where no recipe is called
PlainHost ==
  [dir |-> "dir", pkgs |-> [p \in Packages |-> "unknown"], stamp |-> NoStamp,
   users |-> {}, id_fails |-> FALSE,
   shell |-> [u \in EnvKeys |-> "/bin/sh"], env_extra |-> [u \in EnvKeys |-> <<>>],
   roles |-> {}, dbs |-> {}, grants |-> {}]

RecipesIdle ==
  /\ session = NewSession(<<>>, <<>>)
  /\ host = PlainHost
  /\ call = NoCall

\* the run variables for the specifications of recipes, where the runs of a
\* recipe's commands are part of the recipe's action
RunIdle ==
  /\ kind = "remote"
  /\ op = "none"
  /\ cmd = command(<<>>)
  /\ content = [stdout |-> <<>>, stderr |-> <<>>]
  /\ child = [st |-> "none", status |-> Some(0), sent |-> <<>>,
              written |-> [s \in Streams |-> 0]]
  /\ pipe = [s \in Streams |-> <<>>]
  /\ pump = [s \in Streams |-> IdlePump]
  /\ joined = [s \in Streams |-> FALSE]
  /\ mainpc = "built"
  /\ waitRes = "none"
  /\ result = NoResult
  /\ log = [command |-> <<>>, stdout |-> <<>>, stderr |-> <<>>]

InitWith(argvs, outs, errs, statuses) ==
  /\ kind \in {"remote", "local"}
  /\ op = "none"
  /\ \E argv \in argvs : cmd = NewCommand(kind, argv)
  /\ content \in [stdout : outs, stderr : errs]
  /\ \E st \in statuses :
       child = [st |-> "none", status |-> st, sent |-> <<>>,
                written |-> [s \in Streams |-> 0]]
  /\ pipe = [s \in Streams |-> <<>>]
  /\ pump = [s \in Streams |-> IdlePump]
  /\ joined = [s \in Streams |-> FALSE]
  /\ mainpc = "built"
  /\ waitRes = "none"
  /\ result = NoResult
  /\ log = [command |-> <<>>, stdout |-> <<>>, stderr |-> <<>>]
  /\ RecipesIdle

\* any command, any child: short streams, every exit status, every failure
Init ==
  InitWith(Argvs, SeqsUpTo(RunBytes, MaxOut), SeqsUpTo(RunBytes, MaxErr),
           Statuses)

Next ==
  \/ AllowFailure
  \/ Run
  \/ RunSpawnError
  \/ ExitCode
  \/ ExitCodeSpawnError
  \/ Wait
  \/ WaitError
  \/ JoinStdout
  \/ JoinStderr
  \/ ChildExit
  \/ \E s \in Streams : ChildWrite(s)
  \/ \E s \in Streams : PumpRead(s)
  \/ \E s \in Streams : PumpEof(s)
  \/ \E s \in Streams : PumpReadError(s)

Spec == Init /\ [][Next]_vars

\* the pumps on longer streams over more byte values: a child that exits with
\* code 0, no failure of spawn, wait or read
InitPump ==
  InitWith(Argvs \ {<<>>}, SeqsUpTo(PumpBytes, MaxPumpLen), {<<>>, <<97, LF>>}, {Some(0)})

NextPump ==
  \/ Run
  \/ Wait
  \/ JoinStdout
  \/ JoinStderr
  \/ ChildExit
  \/ \E s \in Streams : ChildWrite(s)
  \/ \E s \in Streams : PumpRead(s)
  \/ \E s \in Streams : PumpEof(s)

SpecPump == InitPump /\ [][NextPump]_vars

\* the pumps on streams that hold the text "[eof]" themselves
LogSegments == {<<97>>, <<LF>>, <<CR>>, EofMarker}

RECURSIVE WordsUpTo(_, _)
WordsUpTo(S, n) ==
  IF n = 0 THEN {<<>>}
  ELSE LET shorter == WordsUpTo(S, n - 1)
       IN shorter \cup {w \o s : w \in shorter, s \in S}

InitLog ==
  InitWith(Argvs \ {<<>>}, WordsUpTo(LogSegments, MaxSegs), {<<>>, <<97>>}, {Some(0)})

SpecLog == InitLog /\ [][NextPump]_vars

\* the builder: a remote command grown by any builder calls, then run with a
\* child that writes nothing and exits with code 0
InitBuilder ==
  /\ kind = "remote"
  /\ op = "none"
  /\ \E argv \in {<<>>, <<"psql">>} : cmd \in {command(argv), raw_command(argv)}
  /\ content = [stdout |-> <<>>, stderr |-> <<>>]
  /\ child = [st |-> "none", status |-> Some(0), sent |-> <<>>,
              written |-> [s \in Streams |-> 0]]
  /\ pipe = [s \in Streams |-> <<>>]
  /\ pump = [s \in Streams |-> IdlePump]
  /\ joined = [s \in Streams |-> FALSE]
  /\ mainpc = "built"
  /\ waitRes = "none"
  /\ result = NoResult
  /\ log = [command |-> <<>>, stdout |-> <<>>, stderr |-> <<>>]
  /\ RecipesIdle

NextBuilder ==
  \/ BuildArg
  \/ BuildRawArg
  \/ BuildRedactedArg
  \/ BuildArgs
  \/ BuildRawArgs
  \/ BuildPrependArgs
  \/ BuildUser
  \/ Run
  \/ ChildExit
  \/ Wait
  \/ \E s \in Streams : PumpEof(s)
  \/ JoinStdout
  \/ JoinStderr

SpecBuilder == InitBuilder /\ [][NextBuilder]_vars

\* streams longer than a pipe holds, on either side or both, and a stream
\* that does not decode; every exit status
LiveStreams == {<<>>, <<255>>, [i \in 1..PipeCap + 1 |-> 97]}

InitLive == InitWith(Argvs \ {<<>>}, LiveStreams, LiveStreams, Statuses)

\* the child, each pump and the caller of run are scheduled independently:
\* each takes a step it can take
Fairness ==
  /\ WF_vars(ChildExit \/ \E s \in Streams : ChildWrite(s))
  /\ \A s \in Streams : WF_vars(PumpRead(s) \/ PumpEof(s))
  /\ WF_vars(Wait \/ JoinStdout \/ JoinStderr)

SpecLive == InitLive /\ [][NextPump]_vars /\ Fairness

\* upload, on every kind of remote parent path, with and without a port and
\* a login user in the Session
InitUpload ==
  /\ RunIdle
  /\ \E port \in {<<>>, <<2222>>}, login \in {<<>>, <<"root">>} :
       session = NewSession(port, login)
  /\ \E d \in {"absent", "file", "dir", "notype"} : host = [PlainHost EXCEPT !.dir = d]
  /\ call = NoCall

NextUpload == Upload

SpecUpload == InitUpload /\ [][NextUpload]_vars

\* the apt recipe on a new Session, for every report of dpkg-query on the
\* packages and every stamp file
InitApt ==
  /\ RunIdle
  /\ session = NewSession(<<>>, <<>>)
  /\ \E pkgs \in [Packages -> PkgStates], stamp \in Stamps :
       host = [PlainHost EXCEPT !.pkgs = pkgs, !.stamp = stamp]
  /\ call = NoCall

NextApt ==
  \/ UpdatePackageList
  \/ IsPackageInstalled
  \/ Install
  \/ UpgradeSystem

SpecApt == InitApt /\ [][NextApt]_vars

\* the user recipe, for every set of existing users
InitUser ==
  /\ RunIdle
  /\ session = NewSession(<<>>, <<>>)
  /\ \E users \in SUBSET UserNames, id_fails \in BOOLEAN :
       host = [PlainHost EXCEPT !.users = users, !.id_fails = id_fails]
  /\ call = NoCall

NextUser ==
  \/ UserExists
  \/ CreateUser

SpecUser == InitUser /\ [][NextUser]_vars

\* the env recipe on a new Session, on a host that has the user deploy and
\* not the user www, for every login shell of its accounts and every text
\* env prints for them before the SHELL line
InitEnv ==
  /\ RunIdle
  /\ session = NewSession(<<>>, <<>>)
  /\ \E shells \in [EnvKeys -> ShellPaths], extra \in [EnvKeys -> EnvTexts] :
       /\ shells[<<"www">>] = "/bin/sh" /\ extra[<<"www">>] = <<>>
       /\ host = [PlainHost EXCEPT !.shell = shells, !.env_extra = extra,
                                   !.users = {"deploy"}]
  /\ call = NoCall

NextEnv ==
  \/ Env
  \/ Shell
  \/ SetShell

SpecEnv == InitEnv /\ [][NextEnv]_vars

\* the two probes that read an exit code, for every report of dpkg-query,
\* every set of existing users and an id that fails
InitProbes ==
  /\ RunIdle
  /\ session = NewSession(<<>>, <<>>)
  /\ \E pkgs \in [Packages -> PkgStates], users \in SUBSET UserNames, id_fails \in BOOLEAN :
       host = [PlainHost EXCEPT !.pkgs = pkgs, !.users = users, !.id_fails = id_fails]
  /\ call = NoCall

NextProbes ==
  \/ UserExists
  \/ IsPackageInstalled

SpecProbes == InitProbes /\ [][NextProbes]_vars

\* the postgres recipe, on a server with or without the role r_ and with any
\* of the databases
InitPostgres ==
  /\ RunIdle
  /\ session = NewSession(<<>>, <<>>)
  /\ \E roles \in {{}, {[name |-> <<"r", "_">>, password |-> <<"p", "w">>]}},
        dbs \in SUBSET {<<"r", "_">>, <<"$">>} :
       host = [PlainHost EXCEPT !.roles = roles, !.dbs = dbs]
  /\ call = NoCall

NextPostgres ==
  \/ CreateUserWithPassword
  \/ CreateDatabase
  \/ GrantAllPrivileges

SpecPostgres == InitPostgres /\ [][NextPostgres]_vars

\* the builders of both runners: a new command, then every setter and some
\* of the calls that add arguments, in any order
InitSetters ==
  /\ InitWith({<<>>, <<"psql">>}, {<<>>}, {<<>>}, {Some(0)})

NextSetters ==
  \/ HideStdout
  \/ HideStderr
  \/ HideAllOutput
  \/ HideCommand
  \/ StdoutLogLevel
  \/ StderrLogLevel
  \/ CommandLogLevel
  \/ AllowFailure
  \/ kind = "remote" /\ BuildRawArg
  \/ kind = "remote" /\ BuildRedactedArg
  \/ kind = "remote" /\ BuildUser
  \/ kind = "local" /\ LocalArg
  \/ kind = "local" /\ LocalArgs

SpecSetters == InitSetters /\ [][NextSetters]_vars

(***************************************************************************)
(* Properties.                                                             *)
(***************************************************************************)
Done == mainpc = "done"

\* the child ended with exit code c and run saw it
ExitedWith(c) == waitRes = "ok" /\ child.status = Some(c)

\* stream s decodes and no read of it failed
StreamReadable(s) == from_utf8_ok(content[s]) /\ pump[s].res # "io"

\* a text without its line terminators
WithoutLineEndings(text) == SelectSeq(text, LAMBDA b : b # LF /\ b # CR)

\* C1: for the remote Command and for LocalCommand, a run without
\* allow_failure of a child that exits with a non-zero code returns an error,
\* never an Ok CommandOutput.
C1_NonZeroExitIsError ==
  (Done /\ op = "run" /\ ~cmd.allow_failure
        /\ child.status # NoCode /\ child.status[1] # 0)
    => ~result.ok

C1_Witness ==
  /\ Done /\ op = "run" /\ kind = "remote" /\ ~cmd.allow_failure
  /\ ExitedWith(1)
  /\ ~result.ok /\ result.err = ExitCodeMessage("remote") /\ result.code = 1

\* C2: for both runners, run with allow_failure of a child that exits with any
\* code c, both streams decoding as UTF-8 and read to their end, returns Ok
\* with exit_code exactly c, the stdout field holding the capture of the
\* child's stdout and the stderr field the capture of its stderr.
C2_AllowFailureReturnsOutput ==
  \A c \in ExitCodes :
    (Done /\ op = "run" /\ cmd.allow_failure /\ ExitedWith(c)
          /\ \A s \in Streams : StreamReadable(s))
      => /\ result.ok
         /\ result.exit_code = c
         /\ result.stdout = pump["stdout"].output
         /\ result.stderr = pump["stderr"].output
         /\ WithoutLineEndings(result.stdout) = WithoutLineEndings(content.stdout)
         /\ WithoutLineEndings(result.stderr) = WithoutLineEndings(content.stderr)

C2_Witness ==
  /\ Done /\ op = "run" /\ kind = "local" /\ cmd.allow_failure
  /\ ExitedWith(1)
  /\ content.stdout = <<>> /\ content.stderr = <<97>>
  /\ result.ok /\ result.exit_code = 1
  /\ result.stdout = <<>> /\ result.stderr # <<>>

\* C3: for both runners exit_code() returns what allow_failure().run() returns,
\* mapped to its exit code: Ok(c) exactly when the child was waited for, ended
\* with a code c and both pumps were joined with a capture, for every c, zero
\* or not; an error otherwise, and never the non-zero-exit error.
C3_ExitCodeIsAllowFailureRun ==
  (Done /\ op = "exit_code")
    => /\ cmd.allow_failure
       /\ result.ok <=> /\ waitRes = "ok" /\ child.status # NoCode
                        /\ \A s \in Streams : joined[s] /\ pump[s].res = "ok"
       /\ result.ok => result = OkCode(child.status[1])
       /\ ~result.ok => result.err # ExitCodeMessage(kind)
       /\ \A c \in ExitCodes :
            (ExitedWith(c) /\ \A s \in Streams : StreamReadable(s)) => result = OkCode(c)

C3_Witness ==
  /\ Done /\ op = "exit_code" /\ kind = "remote"
  /\ ExitedWith(2)
  /\ result = OkCode(2)

\* C4: a command whose argv is empty never gets a child, a pump or a log
\* record, and its run (or exit_code) returns the empty-command error.
C4_EmptyArgvFailsFirst ==
  cmd.command = <<>>
    => /\ child.st = "none"
       /\ \A s \in Streams : pump[s] = IdlePump /\ pipe[s] = <<>> /\ log[s] = <<>>
       /\ log.command = <<>>
       /\ mainpc \in {"built", "done"}
       /\ Done => (~result.ok /\ result.err = "cannot run empty command")

C4_Witness ==
  /\ Done /\ op = "run" /\ kind = "local" /\ cmd.command = <<>>
  /\ ~result.ok /\ result.err = "cannot run empty command"

\* C5: when the child ends without an exit code, run returns an error whether
\* or not allow_failure is set, and so does exit_code(); when the wait itself
\* succeeded the error is the missing exit code.
C5_SignalIsError ==
  (Done /\ child.status = NoCode)
    => /\ ~result.ok
       /\ waitRes = "ok" => result.err = "missing exit code"

C5_Witness ==
  /\ Done /\ op = "exit_code" /\ cmd.allow_failure
  /\ child.st = "exited" /\ child.status = NoCode /\ waitRes = "ok"
  /\ ~result.ok /\ result.err = "missing exit code"

\* C6: when the remote run returns the non-zero-exit error, both pump tasks
\* have reached the end of their stream and have been joined.
C6_RemotePumpsJoinedOnExitError ==
  (Done /\ kind = "remote" /\ ~result.ok /\ result.err = ExitCodeMessage("remote"))
    => \A s \in Streams : pump[s].st = "done" /\ joined[s]

\* C7: when the local run returns the non-zero-exit error, both pump threads
\* have reached the end of their stream and have been joined.
C7_LocalPumpsJoinedOnExitError ==
  (Done /\ kind = "local" /\ ~result.ok /\ result.err = ExitCodeMessage("local"))
    => \A s \in Streams : pump[s].st = "done" /\ joined[s]

\* C8: when the wait fails, or succeeds without an exit code, after the pumps
\* were started, run returns the error only once both pumps have been joined.
C8_PumpsJoinedOnWaitError ==
  (Done /\ (waitRes = "failed" \/ (waitRes = "ok" /\ child.status = NoCode)))
    => \A s \in Streams : pump[s].st = "done" /\ joined[s]

\* C9: whenever the remote run returns Ok, stdout and stderr of the
\* CommandOutput are exactly the bytes the child wrote to that stream, in
\* order, newlines and an unterminated last segment included.
C9_RemoteCaptureIsStream ==
  (Done /\ kind = "remote" /\ result.ok)
    => /\ result.stdout = content.stdout
       /\ result.stderr = content.stderr

C9_Witness ==
  /\ Done /\ kind = "remote" /\ result.ok
  /\ content.stdout = <<LF, 97, CR>> /\ content.stderr = <<97, LF>>
  /\ result.stdout = <<LF, 97, CR>> /\ result.stderr = <<97, LF>>
  /\ Len(log.stdout) = 2

\* C10: whenever the local run returns Ok, stdout and stderr of the
\* CommandOutput are exactly the bytes the child wrote to that stream, also
\* when the last line has no newline and when lines end in "\r\n".
C10_LocalCaptureIsStream ==
  (Done /\ kind = "local" /\ result.ok)
    => /\ result.stdout = content.stdout
       /\ result.stderr = content.stderr

(***************************************************************************)
(* Reading a capture back from the log events of its stream.               *)
(***************************************************************************)
EndsWith(b, m) == Len(b) >= Len(m) /\ SubSeq(b, Len(b) - Len(m) + 1, Len(b)) = m

\* what one event stands for: its message without the prefix, and then
\* without the marker if it carries one, with a newline if it does not
Contribution(msg, prefix) ==
  LET body == SubSeq(msg, Len(prefix) + 1, Len(msg)) IN
  IF EndsWith(body, EofMarker) THEN SubSeq(body, 1, Len(body) - Len(EofMarker))
  ELSE body \o <<LF>>

RECURSIVE Reconstruct(_, _)
Reconstruct(events, prefix) ==
  IF events = <<>> THEN <<>>
  ELSE Contribution(Head(events).msg, prefix) \o Reconstruct(Tail(events), prefix)

\* no line of text ends with "[eof]": a line is what precedes a newline and,
\* for the local pump (which never writes the marker), also an unterminated
\* last line; the local pump drops a carriage return before the newline
RECURSIVE NoLineEndsWithMarker(_, _)
NoLineEndsWithMarker(text, k) ==
  LET index == position(text) IN
  IF index = 0
  THEN k = "remote" \/ ~EndsWith(text, EofMarker)
  ELSE LET raw == SubSeq(text, 1, index)
           body == IF k = "remote" THEN SubSeq(raw, 1, index - 1) ELSE strip_line_ending(raw)
       IN /\ ~EndsWith(body, EofMarker)
          /\ NoLineEndsWithMarker(SubSeq(text, index + 1, Len(text)), k)

PumpEnded(s) == pump[s].st = "done" /\ pump[s].res = "ok"

\* C11 as stated: for each stream, the log events of the pump, read back in
\* emission order (prefix removed, a newline added, or the "[eof]" marker
\* removed and no newline added), give exactly the capture of that stream.
C11_LogsReconstructCapture ==
  \A s \in Streams :
    PumpEnded(s) => Reconstruct(log[s], Prefix(s)) = pump[s].output

\* C11, amended: the same, for streams none of whose lines ends with the
\* text "[eof]".
C11_LogsReconstructCaptureOfMarkerFreeLines ==
  \A s \in Streams :
    (PumpEnded(s) /\ NoLineEndsWithMarker(content[s], kind))
      => Reconstruct(log[s], Prefix(s)) = pump[s].output

C11_Witness ==
  /\ kind = "remote" /\ PumpEnded("stdout")
  /\ content.stdout = <<97, LF>> \o EofMarker
  /\ Len(log.stdout) = 2
  /\ log.stdout[2].msg = Prefix("stdout") \o EofMarker \o EofMarker
  /\ Reconstruct(log.stdout, Prefix("stdout")) = content.stdout
  /\ pump["stdout"].output = content.stdout

(***************************************************************************)
(* Redacted arguments.                                                     *)
(***************************************************************************)
\* the positions of c's arguments that carry a placeholder
RedactedAt(c) == {i \in 1..Len(c.command) : c.command[i].display_placeholder # None}

\* C12: an argument added with redacted_arg(R, P) stays redacted through
\* every later builder call, in whatever position it ends up; once run has
\* spawned the child, that position was handed to the transport as the
\* escaped argument R, the "running" record shows P there, and no record of
\* the command's log shows R.
C12_RedactedArgIsSentNotLogged ==
  [][/\ mainpc = "built" => Cardinality(RedactedAt(cmd')) >= Cardinality(RedactedAt(cmd))
     /\ mainpc' # "built" /\ cmd'.command # <<>> =>
          /\ Len(log'.command) = 1
          /\ \A i \in RedactedAt(cmd') :
               /\ child'.sent[i] = [how |-> "Escaped", value |-> cmd'.command[i].value]
               /\ cmd'.command[i].value \in Secrets
               /\ log'.command[1].msg[2][i] = <<"display", cmd'.command[i].display_placeholder>>
          /\ \A n \in 1..Len(log'.command) :
               \A i \in 1..Len(log'.command[n].msg[2]) :
                 log'.command[n].msg[2][i][2] \notin Secrets]_vars

C12_Witness ==
  /\ Done /\ result.ok
  /\ Len(cmd.command) = 5 /\ RedactedAt(cmd) = {5}
  /\ cmd.command[1].value = "sudo" /\ cmd.command[4].value = "postgres"
  /\ child.sent[5] = [how |-> "Escaped", value |-> "hunter2"]
  /\ log.command[1].msg[2][5] = <<"display", "***">>

\* C13: for both runners, once run has spawned a child that writes finite
\* data to stdout and stderr in any interleaving (more than a pipe holds on
\* one stream before anything on the other included) and then ends, run
\* eventually returns.
C13_RunReturns == (mainpc = "wait") ~> Done

C13_Witness ==
  /\ Done /\ kind = "local" /\ result.ok
  /\ \A s \in Streams : Len(content[s]) > PipeCap /\ child.written[s] = Len(content[s])
  /\ Len(result.stdout) > PipeCap

\* C14: for both runners, when the bytes the child wrote to stdout or to
\* stderr are not well-formed UTF-8, run (and exit_code) returns an error and
\* never Ok, whatever the exit status and whether or not allow_failure is set.
C14_InvalidUtf8IsError ==
  (Done /\ \E s \in Streams : ~Utf8From(content[s], 1)) => ~result.ok

C14_Witness ==
  /\ Done /\ op = "run" /\ kind = "remote" /\ cmd.allow_failure
  /\ ExitedWith(0)
  /\ content.stdout = <<97>> /\ content.stderr = <<255>>
  /\ joined["stdout"] /\ joined["stderr"]
  /\ ~result.ok /\ result.err = "utf8"

(***************************************************************************)
(* upload.                                                                 *)
(***************************************************************************)
Uploaded == call.name = "upload"

\* the effects of the last call that went through channel via
EffectsVia(via) == SelectSeq(call.effects, LAMBDA e : e.via = via)

\* C15: when the remote parent path does not exist or is not a directory,
\* upload returns an error having done nothing but ask for its metadata: no
\* remote command was run and no local rsync was spawned.
C15_UploadChecksDirectoryFirst ==
  (Uploaded /\ host.dir # "dir")
    => /\ ~call.result.ok
       /\ call.effects = <<Sftp("metadata", RemoteDir)>>
       /\ EffectsVia("remote") = <<>> /\ EffectsVia("local") = <<>>

C15_Witness ==
  /\ Uploaded /\ host.dir = "file"
  /\ call.args[3] = <<<<"r">>>> /\ session.port # <<>>
  /\ call.result = Err("upload destination is not a directory")
  /\ call.effects = <<Sftp("metadata", RemoteDir)>>

\* the names the class [A-Za-z0-9._-]+ matches
MatchesUserClass(name) == Len(name) >= 1 /\ \A i \in 1..Len(name) : ~unsafe_char(name[i])

\* C16: when upload is given a remote_user that does not match
\* [A-Za-z0-9._-]+ (and the remote parent path is a directory), it fails
\* with the unsafe-user error and spawns no rsync.
C16_UploadRejectsUnsafeUser ==
  (Uploaded /\ host.dir = "dir" /\ call.args[3] # <<>>
            /\ ~MatchesUserClass(call.args[3][1]))
    => /\ call.result = Err("unsafe user")
       /\ EffectsVia("local") = <<>>

\* C17: an upload that spawns the local rsync has, after the directory check
\* and before the spawn, run the remote commands that ensure rsync is
\* installed on the host.
C17_UploadEnsuresRsyncInstalled ==
  (Uploaded /\ EffectsVia("local") # <<>>)
    => \E i \in 2..Len(call.effects) - 1 :
         /\ call.effects[i].via = "remote"
         /\ \E j \in 1..Len(call.effects[i].argv) : call.effects[i].argv[j] = "rsync"

(***************************************************************************)
(* The apt recipe.                                                         *)
(***************************************************************************)
\* the cache of the Session holds the mark
Marked(sess) == PackageListUpdated \in sess.cache

AptGetUpdate == RemoteRun(<<"apt-get", "update">>)

\* e is among the first n of the effects
IssuedWithin(effects, e, n) == \E i \in 1..n : i <= Len(effects) /\ effects[i] = e

Issued(effects, e) == IssuedWithin(effects, e, Len(effects))

\* the requested packages dpkg-query does not report as installed, in the
\* order of the request
NotInstalled(h, packages) == SelectSeq(packages, LAMBDA p : h.pkgs[p] # "installed")

\* the stamp file exists and was modified less than AUTO_UPDATE_PERIOD ago
FreshStamp(h) == h.stamp.state = "present" /\ h.stamp.age < AUTO_UPDATE_PERIOD

\* C18: a call of install that finds a requested package not installed (every
\* probe answering) applies the freshness rule - nothing if the cache is
\* marked, else the stamp is looked at and either the cache is marked on a
\* fresh stamp or apt-get update is run - and only then runs
\* `apt-get install --yes` with exactly the packages not installed, in the
\* order of the request.
C18_InstallAppliesFreshnessRule ==
  [][(call'.name = "install"
        /\ (\A i \in 1..Len(call'.args[1]) : host.pkgs[call'.args[1][i]] # "broken")
        /\ NotInstalled(host, call'.args[1]) # <<>>)
      => LET effects == call'.effects
             last == Len(effects)
         IN /\ effects[last] =
                 RemoteRun(<<"apt-get", "install", "--yes">> \o NotInstalled(host, call'.args[1]))
            /\ \/ Marked(session)
               \/ /\ IssuedWithin(effects, Sftp("metadata", StampPath), last - 1)
                  /\ \/ FreshStamp(host) /\ Marked(session')
                     \/ IssuedWithin(effects, AptGetUpdate, last - 1)]_vars

\* C19: once the cache of the Session is marked (by update_package_list or by
\* the fresh-stamp short cut), it stays marked and no later call of install or
\* upgrade_system runs `apt-get update`.
C19_NoUpdateOnceMarked ==
  [][Marked(session)
      => /\ Marked(session')
         /\ call'.name \in {"install", "upgrade_system"} => ~Issued(call'.effects, AptGetUpdate)]_vars

C19_Witness ==
  /\ Marked(session)
  /\ host.stamp.state = "absent"
  /\ call.name = "upgrade_system" /\ call.result.ok
  /\ call.effects =
       <<RemoteRun(<<"DEBIAN_FRONTEND=noninteractive", "apt-get", "dist-upgrade", "--yes">>)>>

\* C20: the freshness rule, met through upgrade_system, for every cache and
\* every stamp: with the cache marked it runs nothing; else with a stamp
\* modified less than AUTO_UPDATE_PERIOD ago it marks the cache and does not
\* run apt-get update; in every other case it runs update_package_list; and
\* it fails only when that update fails.
C20_FreshnessRule ==
  [][call'.name = "upgrade_system"
      => LET effects == call'.effects IN
         /\ Marked(session)
              => ~Issued(effects, Sftp("metadata", StampPath)) /\ ~Issued(effects, AptGetUpdate)
         /\ (~Marked(session) /\ FreshStamp(host))
              => Marked(session') /\ ~Issued(effects, AptGetUpdate)
         /\ (~Marked(session) /\ ~FreshStamp(host))
              => Issued(effects, AptGetUpdate)
         /\ ~call'.result.ok
              => call'.result.err \in {"apt-get update", "apt-get dist-upgrade"}]_vars

(***************************************************************************)
(* The user recipe.                                                        *)
(***************************************************************************)
\* how many times the effects hold `useradd --create-home name`
Useradds(effects, name) ==
  Len(SelectSeq(effects, LAMBDA e : e = RemoteRun(<<"useradd", "--create-home", name>>)))

\* the call made last is create_user(name) and so is the one before it
TwoCreateUser(c, name) ==
  /\ c.name = "create_user" /\ c.args = <<name>>
  /\ c.before # <<>> /\ c.before[1].name = "create_user" /\ c.before[1].args = <<name>>

\* a create_user(name) call made where the user exists runs no useradd and
\* returns Ok
NoUseraddForExistingUser ==
  \A name \in UserNames :
    (call'.name = "create_user" /\ call'.args = <<name>>
       /\ name \in host.users /\ ~host.id_fails)
      => Useradds(call'.effects, name) = 0 /\ call'.result = OkUnit

Memoized(sess, u) ==
  /\ sess.env_cache # <<>>
  /\ IF u = <<>> THEN sess.env_cache[1].current_user # <<>>
     ELSE u[1] \in DOMAIN sess.env_cache[1].other_users

MemoOf(sess, u) ==
  IF u = <<>> THEN sess.env_cache[1].current_user[1]
  ELSE sess.env_cache[1].other_users[u[1]]

\* C22: env is memoized per account.  An env(u) that succeeds leaves its map
\* in the Session under u; an entry is never dropped or changed by a later
\* call; an env(u) made while u has an entry runs no remote command and
\* returns that entry; an env(u) made while u has none runs the remote
\* command, whatever entries other accounts have.
C22_EnvMemoizedPerUser ==
  [][/\ \A u \in EnvKeys :
          Memoized(session, u)
            => Memoized(session', u) /\ MemoOf(session', u) = MemoOf(session, u)
     /\ call'.name = "env"
          => LET u == call'.args[1] IN
             /\ Memoized(session, u)
                  => /\ call'.effects = <<>>
                     /\ call'.result = OkCode(MemoOf(session, u))
             /\ ~Memoized(session, u) => call'.effects # <<>>
             /\ call'.result.ok
                  => Memoized(session', u) /\ MemoOf(session', u) = call'.result.value]_vars

\* env("deploy") answered from the cache, which also holds the login
\* account's map, with the shell it had before a chsh changed it on the host
C22_Witness ==
  /\ call.name = "env" /\ call.args = <<<<"deploy">>>>
  /\ call.effects = <<>> /\ call.result.ok
  /\ Memoized(session, <<>>)
  /\ call.result.value[SHELL] # as_bytes(host.shell[<<"deploy">>])

\* C23: after a set_shell(path, u) that returned Ok, the login shell of the
\* account u on the host is path, whatever calls the Session made before.
C23_SetShellReachesRequestedShell ==
  (call.name = "set_shell" /\ call.result.ok)
    => host.shell[call.args[2]] = call.args[1]

\* the argv of c is the values b, each escaped and without placeholder,
\* followed by the argv of a, argument for argument
Prepended(a, b, c) ==
  /\ Len(c.command) = Len(b) + Len(a.command)
  /\ \A i \in 1..Len(b) :
       c.command[i] = [kind |-> "Escaped", value |-> b[i], display_placeholder |-> None]
  /\ \A i \in 1..Len(a.command) : c.command[Len(b) + i] = a.command[i]

SudoArgs(name) == <<"sudo", "--login", "--user", name>>

\* C24: for every command the builder can hold and every list b,
\* prepend_args(b) gives the escaped values of b followed by the arguments
\* the command had, each with its kind and placeholder; user(Some(u)) gives
\* what prepend_args(["sudo", "--login", "--user", u]) gives, and user(None)
\* gives the command back.
C24_PrependArgsPutsArgumentsFirst ==
  mainpc = "built"
    => /\ \A vs \in ArgLists : Prepended(cmd, vs, prepend_args(cmd, vs))
       /\ \A u \in Users :
            IF u = <<>> THEN user(cmd, u) = cmd
            ELSE /\ user(cmd, u) = prepend_args(cmd, SudoArgs(u[1]))
                 /\ Prepended(cmd, SudoArgs(u[1]), user(cmd, u))

\* a command whose redacted argument was pushed back by user(Some("postgres"))
C24_Witness ==
  /\ mainpc = "built"
  /\ Len(cmd.command) = 5
  /\ \A i \in 1..4 : cmd.command[i] = Escaped(SudoArgs("postgres")[i])
  /\ cmd.command[5] = [kind |-> "Escaped", value |-> "hunter2", display_placeholder |-> "***"]

\* C28: once a remote run has spawned its child, the transport was handed
\* one argument per argv entry, in argv order: the first through the escaped
\* constructor when argv[0] is escaped and through the raw one when it is
\* raw, each later one through the escaped or the raw adder after its own
\* kind, with its value, whatever the kind of argv[0] and whatever
\* placeholder it carries.
C28_RunDispatchesOnEachArgKind ==
  (kind = "remote" /\ child.st # "none")
    => /\ Len(child.sent) = Len(cmd.command)
       /\ \A i \in 1..Len(cmd.command) :
            /\ child.sent[i].how = cmd.command[i].kind
            /\ child.sent[i].value = cmd.command[i].value

\* a run of a raw argv[0] followed by an escaped, a raw and a redacted
\* argument
C28_Witness ==
  /\ kind = "remote" /\ child.st # "none"
  /\ Len(cmd.command) = 4
  /\ [i \in 1..4 |-> cmd.command[i].kind] = <<"Raw", "Escaped", "Raw", "Escaped">>
  /\ cmd.command[4].display_placeholder # None
  /\ [i \in 1..4 |-> child.sent[i].how] = <<"Raw", "Escaped", "Raw", "Escaped">>
  /\ child.sent[4].value = "hunter2"

\* the messages a stream's text is to be logged as by the remote pump: one
\* per newline with what precedes it, and one with the marker for what
\* follows the last newline when that is not empty
RECURSIVE ExpectedEvents(_, _)
ExpectedEvents(text, prefix) ==
  LET index == position(text) IN
  IF index = 0
  THEN IF text = <<>> THEN <<>> ELSE <<prefix \o text \o EofMarker>>
  ELSE <<prefix \o SubSeq(text, 1, index - 1)>>
         \o ExpectedEvents(SubSeq(text, index + 1, Len(text)), prefix)

\* C27: when a remote pump has ended without error, its events are, in
\* order, one per newline-terminated line of the stream, made of the prefix
\* and the line without its newline, followed by one made of the prefix, the
\* unterminated tail and "[eof]" when the stream does not end in a newline
\* and is not empty, and by none otherwise; the capture is the whole stream,
\* tail included.
C27_RemotePumpLogsEachLineOnce ==
  \A s \in Streams :
    (kind = "remote" /\ PumpEnded(s))
      => /\ [i \in 1..Len(log[s]) |-> log[s][i].msg] = ExpectedEvents(content[s], Prefix(s))
         /\ pump[s].output = content[s]

\* a stream made of a line and an unterminated tail: two events, the second
\* with the marker
C27_Witness ==
  /\ kind = "remote" /\ PumpEnded("stdout")
  /\ content.stdout = <<97, LF, 97>>
  /\ Len(log.stdout) = 2
  /\ log.stdout[2].msg = Prefix("stdout") \o <<97>> \o EofMarker

\* C25: user_exists answers true for exit code 0 of `id --user`, false for
\* exit code 1 and fails for any other; is_package_installed answers, for
\* exit code 0 of dpkg-query, whether its stdout is exactly "installed",
\* answers false for exit code 1 and fails for any other.
C25_ProbesMapExitCodes ==
  /\ call.name = "user_exists"
       => LET code == id_exit_code(host, call.args[1]) IN
          /\ code = 0 => call.result = [ok |-> TRUE, value |-> TRUE]
          /\ code = 1 => call.result = [ok |-> TRUE, value |-> FALSE]
          /\ code \notin {0, 1} => ~call.result.ok
  /\ call.name = "is_package_installed"
       => LET output == dpkg_query(host, call.args[1]) IN
          /\ output.exit_code = 0
               => call.result = [ok |-> TRUE, value |-> (output.stdout = "installed")]
          /\ output.exit_code = 1 => call.result = [ok |-> TRUE, value |-> FALSE]
          /\ output.exit_code \notin {0, 1} => ~call.result.ok

\* user_exists answering false for a user the host does not have, on a host
\* where a package is known to dpkg without being installed
C25_Witness ==
  /\ call.name = "user_exists"
  /\ ~host.id_fails /\ call.args[1] \notin host.users
  /\ call.result = [ok |-> TRUE, value |-> FALSE]
  /\ host.pkgs["nginx"] = "config-files"

AptGetCommand(e) == e.via = "remote" /\ e.argv[1] = "apt-get"

\* C29: a call of install made where dpkg-query reports every requested
\* package as installed (an empty request included) runs the probes and no
\* apt-get command, returns Ok and leaves the host as it was; and no call of
\* install passes to `apt-get install` a package reported as installed.
C29_InstallDoesNothingWhenAllInstalled ==
  [][call'.name = "install"
       => LET packages == call'.args[1]
              effects == call'.effects
          IN /\ (\A i \in 1..Len(packages) : host.pkgs[packages[i]] = "installed")
                  => /\ \A n \in 1..Len(effects) : ~AptGetCommand(effects[n])
                     /\ Len(effects) = Len(packages)
                     /\ call'.result = [ok |-> TRUE]
                     /\ host' = host /\ session' = session
             /\ \A n \in 1..Len(effects) :
                  AptGetCommand(effects[n])
                    => \A j \in 4..Len(effects[n].argv) :
                         host.pkgs[effects[n].argv[j]] # "installed"]_vars

\* install of two packages, both installed: two probes and nothing else
C29_Witness ==
  /\ call.name = "install" /\ call.args[1] = <<"rolldice", "nginx">>
  /\ \A p \in Packages : host.pkgs[p] = "installed"
  /\ Len(call.effects) = 2
  /\ \A n \in 1..2 : call.effects[n].argv[1] = "dpkg-query"
  /\ call.result = [ok |-> TRUE]

\* name is one or more characters, each an ASCII letter or digit or one of
\* more
MatchesClass(name, more) ==
  /\ name # <<>>
  /\ \A i \in 1..Len(name) : name[i] \in AsciiAlphanumeric \cup more

Rejected == ~call.result.ok /\ call.effects = <<>>

\* C26: create_user_with_password and grant_all_privileges given a user that
\* is not one or more of [A-Za-z0-9_], and create_database and
\* grant_all_privileges given a database that is not one or more of
\* [A-Za-z0-9_$], return an error without having run a remote command.
C26_PostgresIdentifiersValidated ==
  /\ (call.name = "create_user_with_password" /\ ~MatchesClass(call.args[1], {"_"}))
       => Rejected
  /\ (call.name = "create_database" /\ ~MatchesClass(call.args[1], {"_", "$"}))
       => Rejected
  /\ (call.name = "grant_all_privileges"
        /\ (~MatchesClass(call.args[2], {"_"}) \/ ~MatchesClass(call.args[1], {"_", "$"})))
       => Rejected

\* sub is a run of consecutive characters of text
Contains(text, sub) ==
  \E i \in 1..(Len(text) - Len(sub) + 1) : SubSeq(text, i, i + Len(sub) - 1) = sub

\* e is a psql --command run through sudo that is not a --tuples-only probe
PsqlStatement(e) == Len(e.argv) = 7 /\ e.argv[5] = "psql" /\ e.argv[6] = "--command"

\* C30: a call of create_user_with_password runs the CREATE USER statement
\* only where the server has no role of that name when the call is made;
\* where it has one, the call runs the probe at most and leaves the roles and
\* their passwords as they were.  The statement, which holds the quoted
\* password, is an argument shown in the log as the text made of the user
\* name and '<redacted>', which does not hold the password, and no shown
\* argument of the call is the statement.
C30_CreateUserOnlyWhenAbsentAndRedacted ==
  [][call'.name = "create_user_with_password"
       => LET name == call'.args[1]
              password == call'.args[2]
              effects == call'.effects
              statement == Text(create_user_sql(name, QuotedData(password)))
              shown == create_user_sql(name, <<"'">> \o Redacted \o <<"'">>)
          IN /\ has_role(host, name)
                  => /\ \A n \in 1..Len(effects) : ~PsqlStatement(effects[n])
                     /\ Len(effects) <= 1
                     /\ host' = host
             /\ \A n \in 1..Len(effects) :
                  /\ PsqlStatement(effects[n])
                       => /\ ~has_role(host, name)
                          /\ effects[n].argv[7] = statement
                          /\ effects[n].shown[7] = <<"display", Text(shown)>>
                          /\ ~Contains(shown, password)
                  /\ \A i \in 1..Len(effects[n].shown) :
                       effects[n].shown[i][2] # statement]_vars

\* the role r_ created with the password o'k: the statement sent holds the
\* quoted password, the log shows the placeholder
C30_Witness ==
  /\ call.name = "create_user_with_password"
  /\ call.args = <<<<"r", "_">>, <<"o", "'", "k">>>>
  /\ call.result = [ok |-> TRUE]
  /\ Len(call.effects) = 2
  /\ call.effects[2].argv[7] = "CREATE USER r_ WITH PASSWORD 'o''k'"
  /\ call.effects[2].shown[7] = <<"display", "CREATE USER r_ WITH PASSWORD '<redacted>'">>
  /\ [name |-> <<"r", "_">>, password |-> <<"o", "'", "k">>] \in host.roles

\* what the remote pump makes of the whole text read at once and then the
\* end of the stream
ReadAtOnce(text, level, prefix) ==
  LET d == remote_lines(text, <<>>, <<>>, level, prefix) IN
  IF d.err THEN d ELSE remote_eof(d.vec, d.output, d.events, level, prefix)

\* C31: a remote pump that has ended, after reads that cut the stream in any
\* way, has logged the events, and ended with the outcome and the capture,
\* that reading the whole stream at once gives.
C31_ChunkingIndependence ==
  \A s \in Streams :
    (kind = "remote" /\ pump[s].st = "done")
      => LET once == ReadAtOnce(content[s], StreamLevel(s), Prefix(s)) IN
         /\ log[s] = once.events
         /\ (pump[s].res = "utf8") = once.err
         /\ (pump[s].res = "ok") = ~once.err
         /\ ~once.err => pump[s].output = once.output

\* the line "é" and its newline, three bytes through a pipe that holds
\* two: every way to the end cuts the line, or the character itself
C31_Witness ==
  /\ kind = "remote" /\ PumpEnded("stdout")
  /\ content.stdout = <<195, 169, LF>>
  /\ Len(log.stdout) = 1
  /\ pump.stdout.output = content.stdout

\* the call c ran `apt-get update` to its end: it went on to another command
\* or returned Ok
UpdateSucceeded(c) ==
  \E i \in 1..Len(c.effects) :
    c.effects[i] = AptGetUpdate /\ (i < Len(c.effects) \/ c.result.ok)

\* the call c ended on an `apt-get update` that failed
UpdateFailed(c) ==
  /\ c.effects # <<>>
  /\ c.effects[Len(c.effects)] = AptGetUpdate
  /\ ~c.result.ok

\* C32: the cache of a Session gets the PackageListUpdated mark only in a
\* call that ran `apt-get update` to success, or that found a stamp modified
\* less than AUTO_UPDATE_PERIOD ago and ran no update; a call whose
\* `apt-get update` fails leaves an unmarked cache unmarked; a marked cache
\* stays marked.
C32_MarkOnlyAfterUpdateOrFreshStamp ==
  [][/\ Marked(session) => Marked(session')
     /\ (~Marked(session) /\ Marked(session'))
          => \/ UpdateSucceeded(call')
             \/ FreshStamp(host) /\ ~Issued(call'.effects, AptGetUpdate)
     /\ (~Marked(session) /\ UpdateFailed(call')) => ~Marked(session')]_vars

\* upgrade_system whose update ran and whose dist-upgrade failed: the cache
\* is marked
C32_Witness ==
  /\ Marked(session)
  /\ call.name = "upgrade_system" /\ ~call.result.ok
  /\ Len(call.effects) = 3
  /\ call.effects[2] = AptGetUpdate
  /\ ~FreshStamp(host)

\* C33: a call of env(u) that fails leaves the Session as it was, without an
\* entry for u, and has run the remote command; it fails whenever u has no
\* entry and a non-empty line of the output has no '='; while u has no entry
\* every env(u) runs the remote command.  A map fetched with success holds,
\* for every non-empty line, the text before its first '=' as a name, and
\* under it everything after that '=' of the last line with that name.
C33_EnvFailureStoresNothing ==
  [][call'.name = "env"
       => LET u == call'.args[1]
              lines == split(env_stdout(host, u), LF)
              cut(k) == find(lines[k], EQUALS)
              name(k) == SubSeq(lines[k], 1, cut(k) - 1)
              value(k) == SubSeq(lines[k], cut(k) + 1, Len(lines[k]))
              filled == {k \in 1..Len(lines) : lines[k] # <<>>}
          IN /\ ~call'.result.ok
                  => /\ session' = session
                     /\ ~Memoized(session', u)
                     /\ call'.effects # <<>>
             /\ (~Memoized(session, u) /\ \E k \in filled : cut(k) = 0)
                  => ~call'.result.ok
             /\ ~Memoized(session, u) => call'.effects # <<>>
             /\ (call'.result.ok /\ call'.effects # <<>>)
                  => /\ DOMAIN call'.result.value = {name(k) : k \in filled}
                     /\ \A k \in filled :
                          (\A j \in filled : j > k => name(j) # name(k))
                            => call'.result.value[name(k)] = value(k)]_vars

\* env("deploy") failing on the line A, in a Session that holds the login
\* account's map and none for deploy
C33_Witness ==
  /\ call.name = "env" /\ call.args = <<<<"deploy">>>>
  /\ call.result = [ok |-> FALSE, err |-> "missing '=' in env output"]
  /\ Memoized(session, <<>>)
  /\ ~Memoized(session, <<"deploy">>)

Severities(c) == <<c.command_log_level, c.stdout_log_level, c.stderr_log_level>>

\* c is what a new command is, but for its arguments
NewBuilder(c) == Severities(c) = <<"Info", "Info", "Error">> /\ c.allow_failure = FALSE

\* r differs from c in its arguments at most
OnlyArgumentsChanged(c, r) ==
  Severities(r) = Severities(c) /\ r.allow_failure = c.allow_failure

\* C34, for a builder value of either runner before it is run: the setters
\* give the value back with their own severity changed and nothing else
\* (Trace for hide_*, stdout and stderr only for hide_all_output);
\* allow_failure gives it back with allow_failure true; the calls that add
\* arguments leave the severities and allow_failure as they are; new
\* commands have the severities info, info, error and allow_failure false.
BuilderFrame ==
  mainpc = "built"
    => /\ \A argv \in Argvs :
            /\ NewBuilder(command(argv)) /\ NewBuilder(raw_command(argv))
            /\ NewBuilder(LocalCommand_new(argv))
       /\ hide_command(cmd) = [cmd EXCEPT !.command_log_level = "Trace"]
       /\ hide_stdout(cmd) = [cmd EXCEPT !.stdout_log_level = "Trace"]
       /\ hide_stderr(cmd) = [cmd EXCEPT !.stderr_log_level = "Trace"]
       /\ hide_all_output(cmd)
            = [cmd EXCEPT !.stdout_log_level = "Trace", !.stderr_log_level = "Trace"]
       /\ \A level \in Levels :
            /\ command_log_level(cmd, level) = [cmd EXCEPT !.command_log_level = level]
            /\ stdout_log_level(cmd, level) = [cmd EXCEPT !.stdout_log_level = level]
            /\ stderr_log_level(cmd, level) = [cmd EXCEPT !.stderr_log_level = level]
       /\ allow_failure(cmd) = [cmd EXCEPT !.allow_failure = TRUE]
       /\ kind = "remote"
            => /\ \A v \in PlainValues :
                    /\ OnlyArgumentsChanged(cmd, arg(cmd, v))
                    /\ OnlyArgumentsChanged(cmd, raw_arg(cmd, v))
               /\ \A v \in Secrets : \A p \in Placeholders :
                    OnlyArgumentsChanged(cmd, redacted_arg(cmd, v, p))
               /\ \A vs \in ArgLists :
                    /\ OnlyArgumentsChanged(cmd, args(cmd, vs))
                    /\ OnlyArgumentsChanged(cmd, raw_args(cmd, vs))
                    /\ OnlyArgumentsChanged(cmd, prepend_args(cmd, vs))
               /\ \A u \in Users : OnlyArgumentsChanged(cmd, user(cmd, u))
       /\ kind = "local"
            => /\ \A v \in PlainValues : OnlyArgumentsChanged(cmd, LocalCommand_arg(cmd, v))
               /\ \A vs \in ArgLists : OnlyArgumentsChanged(cmd, LocalCommand_args(cmd, vs))

\* C34: the frame conditions above hold of every builder value, and no
\* builder call made on a value whose allow_failure is set gives one whose
\* allow_failure is not.
C34_BuilderFrameConditions ==
  /\ []BuilderFrame
  /\ [][(mainpc = "built" /\ mainpc' = "built" /\ cmd.allow_failure)
          => cmd'.allow_failure]_vars

\* a local command with allow_failure set and its output hidden, that got an
\* argument, and whose own records were raised to Warn
C34_Witness ==
  /\ kind = "local" /\ mainpc = "built"
  /\ cmd.allow_failure
  /\ Severities(cmd) = <<"Warn", "Trace", "Trace">>
  /\ cmd.command = <<"psql", "-c">>

=============================================================================
